---- MODULE Spec2Model ----
(***************************************************************************)
(* Model of the electron file plugin (src/src/electron/index.js): the      *)
(* path/URL resolution engine (sanitizePath, FileUrlDef, FileLocation,     *)
(* Entry, getEntryForUrl) and the entry operations of filePlugin over an   *)
(* explicit model of the operating-system file tree.                       *)
(*                                                                         *)
(* Strings are sequences of one-character strings, so that splitting,      *)
(* prefix matching, percent-decoding and `..` handling are computed the    *)
(* way the code computes them.                                             *)
(***************************************************************************)
EXTENDS Integers, Sequences, FiniteSets, TLC

VARIABLES
    arg,            \* input of the pure-function specifications
    res,            \* outputs computed from arg, in order
    initialized,    \* _initialized
    fileLocations,  \* the registry: FileLocation records in registration order
    fs,             \* the OS file tree: node (sequence of segments) -> inode record
    calls,          \* the operation with I/O outstanding (operations are issued in sequence)
    detached,       \* fs.move calls in flight whose moveTo promise is settled already
    last,           \* the settled promise the dispatcher has not yet delivered
    exclCreated     \* history: nodes created by an exclusive getFile and not removed since

vars == <<arg, res, initialized, fileLocations, fs, calls, detached, last, exclCreated>>

-----------------------------------------------------------------------------
(* Strings *)

PATH_SEP == "/"

\* path.sep of the platform the model runs the code on (POSIX)
path_sep == "/"

StartsWith(s, p) == Len(p) <= Len(s) /\ SubSeq(s, 1, Len(p)) = p

EndsWith(s, p) == Len(p) <= Len(s) /\ SubSeq(s, Len(s) - Len(p) + 1, Len(s)) = p

Drop(s, n) == SubSeq(s, n + 1, Len(s))

\* does string s contain t as a substring
Contains(s, t) == \E i \in 1..(Len(s) - Len(t) + 1) : SubSeq(s, i, i + Len(t) - 1) = t

RECURSIVE Flatten(_)
Flatten(ss) == IF ss = <<>> THEN <<>> ELSE Head(ss) \o Flatten(Tail(ss))

RECURSIVE ReplaceChar(_, _, _)
ReplaceChar(s, from, to) ==
    IF s = <<>> THEN <<>>
    ELSE <<IF Head(s) = from THEN to ELSE Head(s)>> \o ReplaceChar(Tail(s), from, to)

UpperChars == <<"A","B","C","D","E","F","G","H","I","J","K","L","M",
                "N","O","P","Q","R","S","T","U","V","W","X","Y","Z">>
LowerChars == <<"a","b","c","d","e","f","g","h","i","j","k","l","m",
                "n","o","p","q","r","s","t","u","v","w","x","y","z">>

\* a faulty case folding that keeps the string as it is
KeepCase(s) == s

\* String.prototype.toLowerCase on one character, as a table
LowerOf == [c \in {UpperChars[i] : i \in 1..Len(UpperChars)} |->
              LowerChars[CHOOSE i \in 1..Len(UpperChars) : UpperChars[i] = c]]

ToLowerChar(c) == IF c \in DOMAIN LowerOf THEN LowerOf[c] ELSE c

\* the "i" flag of the prefix regular expressions
ToLower(s) == [i \in 1..Len(s) |-> ToLowerChar(s[i])]

\* String.prototype.split(/\/+/): the pieces between maximal runs of "/"
RECURSIVE SkipSlashes(_)
SkipSlashes(s) == IF s # <<>> /\ Head(s) = PATH_SEP THEN SkipSlashes(Tail(s)) ELSE s

RECURSIVE SplitFrom(_, _)
SplitFrom(s, acc) ==
    IF s = <<>> THEN <<acc>>
    ELSE IF Head(s) = PATH_SEP THEN <<acc>> \o SplitFrom(SkipSlashes(s), <<>>)
    ELSE SplitFrom(Tail(s), Append(acc, Head(s)))

SLASH_SPLIT(s) == SplitFrom(s, <<>>)

\* path.replaceAll(/\/{2,}/g, "/")
RECURSIVE REPLACE_SLASHES(_)
REPLACE_SLASHES(s) ==
    IF s = <<>> THEN <<>>
    ELSE IF Head(s) = PATH_SEP THEN <<PATH_SEP>> \o REPLACE_SLASHES(SkipSlashes(s))
    ELSE <<Head(s)>> \o REPLACE_SLASHES(Tail(s))

\* Array.prototype.join
RECURSIVE Join(_, _)
Join(components, sep) ==
    IF components = <<>> THEN <<>>
    ELSE IF Len(components) = 1 THEN components[1]
    ELSE components[1] \o <<sep>> \o Join(Tail(components), sep)

\* Array.prototype.splice(index, 1) with a 0-based index
Splice1(components, index) ==
    SubSeq(components, 1, index) \o SubSeq(components, index + 2, Len(components))

DotDot == <<".", ".">>

-----------------------------------------------------------------------------
(* sanitizePath *)

fixSep(filePath) ==
    IF path_sep = PATH_SEP THEN filePath ELSE ReplaceChar(filePath, path_sep, PATH_SEP)

\* the for loop of sanitizePath; index is the 0-based loop variable, and the
\* recursive call is the next iteration after ++index
RECURSIVE RemoveDoubleDots(_, _)
RemoveDoubleDots(components, index) ==
    IF index >= Len(components) THEN components
    ELSE IF components[index + 1] = DotDot
    THEN LET c1 == Splice1(components, index)
         IN  IF index > 0
             THEN RemoveDoubleDots(Splice1(c1, index - 1), (index - 1) + 1)
             ELSE RemoveDoubleDots(c1, index + 1)
    ELSE RemoveDoubleDots(components, index + 1)

sanitizePath(path) ==
    IF path = <<>> THEN <<PATH_SEP>>
    ELSE Join(RemoveDoubleDots(SLASH_SPLIT(REPLACE_SLASHES(fixSep(path))), 0), PATH_SEP)

-----------------------------------------------------------------------------
(* URL definitions, roots and entries *)

FILE_SCHEME == <<"f","i","l","e">>

EFS_SCHEME == <<"e","f","s">>
EFS_BASE == EFS_SCHEME \o <<":","/","/">>
EFS_PREFIX == EFS_BASE \o <<PATH_SEP>>

CDV_SCHEME == <<"c","d","v","f","i","l","e">>
CDV_HOST == <<"l","o","c","a","l","h","o","s","t">>
CDV_BASE == CDV_SCHEME \o <<":","/","/">> \o CDV_HOST
CDV_PREFIX == CDV_BASE \o <<PATH_SEP>>

\* class FileUrlDef: substring(0, base.length) keeps the whole string. The two
\* regular expressions are compiled with the "i" flag: the record keeps the
\* case-folded strings they match
FileUrlDef(scheme, base, skipNativeUrl) ==
    LET b == IF EndsWith(base, <<PATH_SEP>>) THEN SubSeq(base, 1, Len(base)) ELSE base
    IN  [scheme |-> scheme, base |-> b, prefix |-> b \o <<PATH_SEP>>,
         equalsPrefixRE |-> {ToLower(b), ToLower(b \o <<PATH_SEP>>)},
         startsWithPrefixRE |-> ToLower(b \o <<PATH_SEP>>),
         skipNativeUrl |-> skipNativeUrl]

\* def.equalsPrefixRE.test(url): ^base/?$ ignoring case; lurl is url case-folded
equalsPrefixRE(def, lurl) == lurl \in def.equalsPrefixRE

\* def.startsWithPrefixRE.test(url): ^prefix ignoring case; lurl is url case-folded
startsWithPrefixRE(def, lurl) == StartsWith(lurl, def.startsWithPrefixRE)

buildNativeURL(def, fullPath) ==
    IF def.skipNativeUrl THEN <<>> ELSE def.base \o fullPath

\* class FileOSDef
FileOSDef(osDirPath) ==
    LET b == IF EndsWith(osDirPath, <<PATH_SEP>>)
             THEN SubSeq(osDirPath, 1, Len(osDirPath) - 1) ELSE osDirPath
    IN  [base |-> b, prefix |-> b \o <<PATH_SEP>>]

\* url.pathToFileURL(p).toString() for an absolute POSIX path: the characters
\* a URL path cannot hold are percent-encoded
RECURSIVE EncodePathChars(_)
EncodePathChars(p) ==
    IF p = <<>> THEN <<>>
    ELSE (CASE Head(p) = " " -> <<"%","2","0">>
            [] Head(p) = "%" -> <<"%","2","5">>
            [] OTHER -> <<Head(p)>>) \o EncodePathChars(Tail(p))

pathToFileURL(p) == FILE_SCHEME \o <<":","/","/">> \o EncodePathChars(p)

\* the urlDefs object of a FileLocation, in insertion order
UrlDefsOf(name, osDirPath, appScheme, appHostname) ==
    <<FileUrlDef(FILE_SCHEME, pathToFileURL(osDirPath), FALSE),
      FileUrlDef(CDV_SCHEME, CDV_PREFIX \o name, TRUE),
      FileUrlDef(EFS_SCHEME, EFS_PREFIX \o name, FALSE)>>
    \o (IF appScheme # FILE_SCHEME
        THEN <<FileUrlDef(appScheme,
                          appScheme \o <<":","/","/">> \o appHostname \o <<PATH_SEP>> \o name,
                          FALSE)>>
        ELSE <<>>)

getUrlDef(defs, scheme) == defs[CHOOSE i \in 1..Len(defs) : defs[i].scheme = scheme]

\* class FileLocation, constructor (the registry update is in Initialize)
FileLocation(name, osDirPath, modifiable, filesScheme, appScheme, appHostname) ==
    LET location(defs) ==
            [name |-> name,
             modifiable |-> modifiable,
             scheme |-> filesScheme,
             urlDefs |-> defs,
             urlDef |-> getUrlDef(defs, filesScheme),
             osPathDef |-> FileOSDef(fixSep(osDirPath))]
    IN  location(UrlDefsOf(name, fixSep(osDirPath), appScheme, appHostname))

\* no Entry (null)
NullEntry == [root |-> <<>>, fullPath |-> <<>>, name |-> <<>>]

\* path.basename on a POSIX path
basename(p) ==
    LET segs == SelectSeq(SLASH_SPLIT(p), LAMBDA x : x # <<>>)
    IN  IF segs = <<>> THEN <<>> ELSE segs[Len(segs)]

\* class Entry, constructor; root is the name of the owning FileLocation
Entry(root, fullPath) ==
    LET fp == IF fullPath = <<>> \/ fullPath[1] # PATH_SEP
              THEN <<PATH_SEP>> \o fullPath ELSE fullPath
    IN  [root |-> root, fullPath |-> fp, name |-> basename(fp)]

\* FileLocation.getEntry, the loop over this.urlDefs: the first url definition
\* that matches; lurl is url case-folded
RECURSIVE getEntryFrom(_, _, _, _)
getEntryFrom(fl, url, lurl, i) ==
    IF i > Len(fl.urlDefs) THEN NullEntry
    ELSE LET def == fl.urlDefs[i]
         IN  IF equalsPrefixRE(def, lurl)
             THEN Entry(fl.name, sanitizePath(<<>>))
             ELSE IF startsWithPrefixRE(def, lurl)
             THEN Entry(fl.name, sanitizePath(Drop(url, Len(def.prefix))))
             ELSE getEntryFrom(fl, url, lurl, i + 1)

-----------------------------------------------------------------------------
(* sanitizeUrl, getEntryForUrl *)

\* decodeURI on the model's alphabet, whose only escape sequence is %20
RECURSIVE decodeURI(_)
decodeURI(url) ==
    IF url = <<>> THEN <<>>
    ELSE IF StartsWith(url, <<"%","2","0">>) THEN <<" ">> \o decodeURI(Drop(url, 3))
    ELSE <<Head(url)>> \o decodeURI(Tail(url))

RE_ENCODED_URL(url) == Contains(url, <<"%","5">>) \/ Contains(url, <<"%","2","0">>)

\* null is the empty string here: both are rejected by every caller's !url
sanitizeUrl(url) ==
    IF url = <<>> THEN <<>>
    ELSE IF RE_ENCODED_URL(url) THEN decodeURI(url) ELSE url

getEntry(fl, url, sanitized) ==
    LET resolve(u) == IF u = <<>> THEN NullEntry ELSE getEntryFrom(fl, u, ToLower(u), 1)
    IN  resolve(IF sanitized THEN url ELSE sanitizeUrl(url))

RECURSIVE getEntryForUrlFrom(_, _, _, _)
getEntryForUrlFrom(fls, url, lurl, i) ==
    IF i > Len(fls) THEN NullEntry
    ELSE LET first(e) == IF e # NullEntry THEN e ELSE getEntryForUrlFrom(fls, url, lurl, i + 1)
         IN  first(getEntryFrom(fls[i], url, lurl, 1))

\* getEntryForUrl over the registry fls: fl.getEntry(url, true) for each root
getEntryForUrl(fls, url) ==
    LET resolve(u) == IF u = <<>> THEN NullEntry ELSE getEntryForUrlFrom(fls, u, ToLower(u), 1)
    IN  resolve(sanitizeUrl(url))

\* fileLocationsByName[name]
RootOf(fls, name) == fls[CHOOSE i \in 1..Len(fls) : fls[i].name = name]

\* Entry.getOSPath
getOSPath(fls, entry) == RootOf(fls, entry.root).osPathDef.base \o entry.fullPath

\* Entry.getParent
getParent(entry) ==
    Entry(entry.root,
          sanitizePath(entry.fullPath
                       \o (IF EndsWith(entry.fullPath, <<"/">>) THEN <<>> ELSE <<"/">>)
                       \o DotDot))

\* Entry.getChild
getChild(entry, name) ==
    Entry(entry.root,
          sanitizePath(entry.fullPath
                       \o (IF EndsWith(entry.fullPath, <<"/">>) THEN <<>> ELSE <<"/">>)
                       \o name))

\* a faulty createEntryInfo that leaves the path of a directory as it is
createEntryInfoAsIs(isFile, name, fullPath, fl) ==
    LET fp1 == IF ~StartsWith(fullPath, <<PATH_SEP>>) THEN <<PATH_SEP>> \o fullPath ELSE fullPath
        fp2 == IF ~isFile THEN fp1
               ELSE (IF EndsWith(fp1, <<PATH_SEP>>) THEN SubSeq(fp1, 1, Len(fp1) - 1) ELSE fp1)
    IN  [isFile |-> isFile,
         isDirectory |-> ~isFile,
         name |-> name,
         fullPath |-> fp2,
         nativeURL |-> buildNativeURL(fl.urlDef, fp2),
         filesystemName |-> fl.name]

\* createEntryInfo; fl.buildNativeUrl is the default url definition's buildNativeURL
createEntryInfo(isFile, name, fullPath, fl) ==
    LET fp1 == IF ~StartsWith(fullPath, <<PATH_SEP>>) THEN <<PATH_SEP>> \o fullPath ELSE fullPath
        fp2 == IF ~isFile
               THEN (IF ~EndsWith(fp1, <<PATH_SEP>>) THEN fp1 \o <<PATH_SEP>> ELSE fp1)
               ELSE (IF EndsWith(fp1, <<PATH_SEP>>) THEN SubSeq(fp1, 1, Len(fp1) - 1) ELSE fp1)
    IN  [isFile |-> isFile,
         isDirectory |-> ~isFile,
         name |-> name,
         fullPath |-> fp2,
         nativeURL |-> buildNativeURL(fl.urlDef, fp2),
         filesystemName |-> fl.name]

\* Entry.getInfo
getInfo(fls, entry, isFile) ==
    createEntryInfo(isFile, entry.name, entry.fullPath, RootOf(fls, entry.root))

-----------------------------------------------------------------------------
(* plugin.initialize: the scheme configuration and the four roots *)

APP_SCHEME_VAR == <<"A","P","P","_","S","C","H","E","M","E">>

DEFAULT_FILES_SCHEME == EFS_SCHEME

WELL_KNOWN_SCHEMES == {FILE_SCHEME, CDV_SCHEME, EFS_SCHEME}

\* getSchemeConfig(ctx): ctx.scheme is ctx.getScheme(), ctx.filesVar is
\* ctx.getVariable('ELECTRON_FILES_SCHEME') (empty when unset)
getSchemeConfig(ctx) ==
    IF ctx.scheme = CDV_SCHEME \/ ctx.scheme = EFS_SCHEME
    THEN [throws |-> TRUE, filesScheme |-> <<>>, appScheme |-> ctx.scheme]
    ELSE LET v == IF ctx.filesVar = APP_SCHEME_VAR THEN ctx.scheme ELSE ctx.filesVar
             filesScheme == IF v # <<>> THEN v ELSE DEFAULT_FILES_SCHEME
         IN  IF filesScheme # ctx.scheme /\ filesScheme \notin WELL_KNOWN_SCHEMES
             THEN [throws |-> TRUE, filesScheme |-> filesScheme, appScheme |-> ctx.scheme]
             ELSE [throws |-> FALSE, filesScheme |-> filesScheme, appScheme |-> ctx.scheme]

\* the host's directories: app.getAppPath(), app.getPath('userData'),
\* app.getPath('temp'), app.getPath('documents')
AppPath == <<"/","p">>
UserDataPath == <<"/","u">>
TempPath == <<"/","t">>
DocumentsPath == <<"/","d">>

ApplicationName == <<"a","p","p","l","i","c","a","t","i","o","n">>
DataName == <<"d","a","t","a">>
TempName == <<"t","e","m","p">>
DocumentsName == <<"d","o","c","u","m","e","n","t","s">>

\* path.join(dir, name) for two non-empty normalized parts
pathJoin(dir, name) == dir \o <<"/">> \o name

\* the four FileLocation objects plugin.initialize constructs, in the order
\* they are pushed on fileLocations
Roots(ctx) ==
    LET sc == getSchemeConfig(ctx)
    IN  <<FileLocation(ApplicationName, AppPath, FALSE,
                       sc.appScheme, sc.appScheme, ctx.hostname),
          FileLocation(DataName, pathJoin(UserDataPath, ctx.packageName), TRUE,
                       sc.filesScheme, sc.appScheme, ctx.hostname),
          FileLocation(TempName, pathJoin(TempPath, ctx.packageName), TRUE,
                       sc.filesScheme, sc.appScheme, ctx.hostname),
          FileLocation(DocumentsName, DocumentsPath, TRUE,
                       sc.filesScheme, sc.appScheme, ctx.hostname)>>

AppScheme == <<"a","p","p">>

\* the contexts the host passes to plugin.initialize
Ctx(scheme, packageName, filesVar) ==
    [scheme |-> scheme, hostname |-> CDV_HOST, packageName |-> packageName,
     filesVar |-> filesVar]

GoodContexts == { Ctx(s, <<"k">>, <<>>) : s \in {FILE_SCHEME, AppScheme} }

-----------------------------------------------------------------------------
(* path.resolve on an absolute POSIX path: `.` and empty segments dropped, *)
(* `..` resolved lexically, no trailing separator                          *)

RECURSIVE ResolveSegments(_, _)
ResolveSegments(segs, acc) ==
    IF segs = <<>> THEN acc
    ELSE IF Head(segs) = <<>> \/ Head(segs) = <<".">> THEN ResolveSegments(Tail(segs), acc)
    ELSE IF Head(segs) = DotDot
    THEN ResolveSegments(Tail(segs), IF acc = <<>> THEN acc ELSE SubSeq(acc, 1, Len(acc) - 1))
    ELSE ResolveSegments(Tail(segs), Append(acc, Head(segs)))

\* the segments of path.resolve(p)
pathResolve(p) == ResolveSegments(SLASH_SPLIT(p), <<>>)

\* segs is prefix or lies beneath prefix
IsBeneath(segs, prefix) == Len(prefix) <= Len(segs) /\ SubSeq(segs, 1, Len(prefix)) = prefix

-----------------------------------------------------------------------------
(* The operating-system file tree behind fs-extra.  A node is the sequence *)
(* of the segments of its absolute path; fs maps every existing node to    *)
(* its inode.  mtime 0 stands for "the time of the last change", any other *)
(* value was set with utimes.                                              *)

DirInode == [kind |-> "dir", data |-> <<>>, mtime |-> 0]

FileInode(data) == [kind |-> "file", data |-> data, mtime |-> 0]

Exists(f, n) == n \in DOMAIN f
IsDir(f, n) == n \in DOMAIN f /\ f[n].kind = "dir"
IsFile(f, n) == n \in DOMAIN f /\ f[n].kind = "file"

ParentNode(n) == IF n = <<>> THEN <<>> ELSE SubSeq(n, 1, Len(n) - 1)

Children(f, n) == { m \in DOMAIN f : Len(m) = Len(n) + 1 /\ IsBeneath(m, n) }

Put(f, n, inode) == [m \in DOMAIN f \cup {n} |-> IF m = n THEN inode ELSE f[m]]

\* the tree without node n and everything beneath it
DelTree(f, n) == [m \in { x \in DOMAIN f : ~IsBeneath(x, n) } |-> f[m]]

\* kernel path resolution of the segments segs starting at node cur: every
\* component walked through has to be an existing directory
RECURSIVE WalkFrom(_, _, _)
WalkFrom(f, cur, segs) ==
    IF segs = <<>> THEN [err |-> "", node |-> cur]
    ELSE IF ~Exists(f, cur) THEN [err |-> "ENOENT", node |-> cur]
    ELSE IF ~IsDir(f, cur) THEN [err |-> "ENOTDIR", node |-> cur]
    ELSE IF Head(segs) = <<>> \/ Head(segs) = <<".">> THEN WalkFrom(f, cur, Tail(segs))
    ELSE IF Head(segs) = DotDot THEN WalkFrom(f, ParentNode(cur), Tail(segs))
    ELSE WalkFrom(f, Append(cur, Head(segs)), Tail(segs))

RECURSIVE StripTrailingEmpty(_)
StripTrailingEmpty(segs) ==
    IF segs # <<>> /\ segs[Len(segs)] = <<>>
    THEN StripTrailingEmpty(SubSeq(segs, 1, Len(segs) - 1)) ELSE segs

\* the node an absolute OS path names; slash: the path ends with a separator
\* and so has to name a directory
Lookup(f, p) ==
    LET walked(segs, w) ==
            [err |-> w.err, node |-> w.node,
             slash |-> Len(segs) > 1 /\ segs[Len(segs)] = <<>> /\ w.node # <<>>]
        split(segs) == walked(segs, WalkFrom(f, <<>>, StripTrailingEmpty(segs)))
    IN  split(SLASH_SPLIT(p))

\* fs.stat(p)
Stat(f, p) ==
    LET found(l) ==
            IF l.err # "" THEN [err |-> l.err, node |-> l.node, kind |-> ""]
            ELSE IF ~Exists(f, l.node) THEN [err |-> "ENOENT", node |-> l.node, kind |-> ""]
            ELSE IF l.slash /\ IsFile(f, l.node)
            THEN [err |-> "ENOTDIR", node |-> l.node, kind |-> ""]
            ELSE [err |-> "", node |-> l.node, kind |-> f[l.node].kind]
    IN  found(Lookup(f, p))

\* fs.open(p, 'w'): creates the file or truncates it
OpenW(f, p) ==
    LET found(l) ==
            IF l.err # "" THEN [err |-> l.err, node |-> l.node, fs |-> f]
            ELSE IF IsDir(f, l.node) \/ l.slash
            THEN [err |-> "EISDIR", node |-> l.node, fs |-> f]
            ELSE [err |-> "", node |-> l.node, fs |-> Put(f, l.node, FileInode(<<>>))]
    IN  found(Lookup(f, p))

\* fs.open(p, 'r')
OpenR(f, p) ==
    LET found(st) == [err |-> st.err, node |-> st.node]
    IN  found(Stat(f, p))

\* a faulty read: the position is ignored, the bytes come from the start
ReadAtFromStart(f, n, length, position) ==
    IF ~IsFile(f, n) THEN [err |-> "EISDIR", buf |-> <<>>]
    ELSE [err |-> "",
          buf |-> [k \in 1..length |-> IF k <= Len(f[n].data) THEN f[n].data[k] ELSE 0]]

\* fs.read(fd, buf, 0, length, position) on the file at node n into a buffer
\* of length zero bytes: the bytes the file has from position on, the rest of
\* the buffer stays zero; a directory cannot be read
ReadAt(f, n, length, position) ==
    IF ~IsFile(f, n) THEN [err |-> "EISDIR", buf |-> <<>>]
    ELSE [err |-> "",
          buf |-> [k \in 1..length |->
                     IF position + k <= Len(f[n].data) THEN f[n].data[position + k] ELSE 0]]

\* fs.readdir(p, {withFileTypes: true}): the directory entries of p
Readdir(f, p) ==
    LET found(l) ==
            IF l.err # "" THEN [err |-> l.err, files |-> {}]
            ELSE IF ~Exists(f, l.node) THEN [err |-> "ENOENT", files |-> {}]
            ELSE IF ~IsDir(f, l.node) THEN [err |-> "ENOTDIR", files |-> {}]
            ELSE [err |-> "",
                  files |-> { [name |-> m[Len(m)], isDirectory |-> IsDir(f, m)] :
                              m \in Children(f, l.node) }]
    IN  found(Lookup(f, p))

\* fs.mkdir(p), not recursive
Mkdir(f, p) ==
    LET found(l) ==
            IF l.err # "" THEN [err |-> l.err, node |-> l.node, fs |-> f]
            ELSE IF Exists(f, l.node) THEN [err |-> "EEXIST", node |-> l.node, fs |-> f]
            ELSE [err |-> "", node |-> l.node, fs |-> Put(f, l.node, DirInode)]
    IN  found(Lookup(f, p))

\* fs.mkdir(p, {recursive: true}) and fs-extra's mkdirs on node n
RECURSIVE MkdirP(_, _)
MkdirP(f, n) ==
    IF Exists(f, n) THEN [err |-> IF IsDir(f, n) THEN "" ELSE "ENOTDIR", fs |-> f]
    ELSE LET up == MkdirP(f, ParentNode(n))
         IN  IF up.err # "" THEN up ELSE [err |-> "", fs |-> Put(up.fs, n, DirInode)]

\* fs-extra remove(p): rm with recursive and force
Remove(f, p) ==
    LET found(l) ==
            IF l.err = "ENOENT" \/ (l.err = "" /\ ~Exists(f, l.node)) THEN [err |-> "", fs |-> f]
            ELSE IF l.err # "" THEN [err |-> l.err, fs |-> f]
            ELSE IF l.slash /\ IsFile(f, l.node) THEN [err |-> "ENOTDIR", fs |-> f]
            ELSE [err |-> "", fs |-> DelTree(f, l.node)]
    IN  found(Lookup(f, p))

\* fs.readdirSync(p).length
ReaddirLength(f, p) == Cardinality(Children(f, Lookup(f, p).node))

\* fs.utimes(p, t, t)
Utimes(f, p, t) ==
    LET found(st) ==
            IF st.err # "" THEN [err |-> st.err, fs |-> f]
            ELSE [err |-> "", fs |-> Put(f, st.node, [f[st.node] EXCEPT !.mtime = t])]
    IN  found(Stat(f, p))

\* a sequence of n zero bytes
Zeros(n) == [i \in 1..n |-> 0]

\* fs.truncate(p, size)
Truncate(f, p, size) ==
    LET found(st) ==
            IF st.err # "" THEN [err |-> st.err, fs |-> f]
            ELSE IF st.kind = "dir" THEN [err |-> "EISDIR", fs |-> f]
            ELSE LET d == f[st.node].data
                     nd == IF size <= Len(d) THEN SubSeq(d, 1, size)
                           ELSE d \o Zeros(size - Len(d))
                 IN  [err |-> "", fs |-> Put(f, st.node, FileInode(nd))]
    IN  found(Stat(f, p))

\* fs.write(fd, buf, 0, buf.length, position) on the file at node n
WriteAt(f, n, buf, position) ==
    LET d == f[n].data
        padded == IF Len(d) < position THEN d \o Zeros(position - Len(d)) ELSE d
        nd == SubSeq(padded, 1, position) \o buf \o Drop(padded, position + Len(buf))
    IN  Put(f, n, FileInode(nd))

\* the names a directory entry can have, in the order readdir lists them
AllSegs == << <<"a">>, <<"b">>, <<"d">>, <<"k">>, <<"p">>, <<"s">>, <<"t">>, <<"u">> >>

ChildSegs(f, n) == SelectSeq(AllSegs, LAMBDA sg : Exists(f, Append(n, sg)))

\* fs-extra copy of node s onto node d, after its checks of the two top paths:
\* a file replaces a file, a directory is merged into a directory, a kind
\* conflict below fails the copy and leaves what was copied
RECURSIVE CopyNode(_, _, _)
RECURSIVE CopyItems(_, _, _, _)
CopyNode(f, s, d) ==
    IF IsFile(f, s)
    THEN IF IsDir(f, d) THEN [err |-> "EISDIR", fs |-> f]
         ELSE [err |-> "", fs |-> Put(f, d, FileInode(f[s].data))]
    ELSE IF IsFile(f, d) THEN [err |-> "ENOTDIR", fs |-> f]
         ELSE CopyItems(IF Exists(f, d) THEN f ELSE Put(f, d, DirInode), s, d, ChildSegs(f, s))

CopyItems(f, s, d, items) ==
    IF items = <<>> THEN [err |-> "", fs |-> f]
    ELSE LET one == CopyNode(f, Append(s, Head(items)), Append(d, Head(items)))
             rest == CopyItems(one.fs, s, d, Tail(items))
         IN  [err |-> IF one.err # "" THEN one.err ELSE rest.err, fs |-> rest.fs]

\* stat.checkPaths of fs-extra, for copy and move alike
CheckPaths(f, src, dst) ==
    LET checked(s, d, sn, dn) ==
            IF s.err # "" THEN s.err
            ELSE IF d.err # "" /\ d.err # "ENOENT" THEN d.err
            ELSE IF d.err = "" /\ d.node = s.node THEN "ESAME"
            ELSE IF d.err = "" /\ s.kind = "dir" /\ d.kind # "dir" THEN "ENOTDIR"
            ELSE IF d.err = "" /\ s.kind # "dir" /\ d.kind = "dir" THEN "EISDIR"
            ELSE IF s.kind = "dir" /\ sn # dn /\ IsBeneath(dn, sn) THEN "ESUBDIR"
            ELSE ""
    IN  checked(Stat(f, src), Stat(f, dst), pathResolve(src), pathResolve(dst))

\* fs-extra copy(src, dst)
Copy(f, src, dst) ==
    LET copied(chk, s, dn, up) ==
            IF chk # "" THEN [err |-> chk, fs |-> f]
            ELSE IF up.err # "" THEN [err |-> up.err, fs |-> f]
            ELSE CopyNode(up.fs, s.node, dn)
        onto(dn) == copied(CheckPaths(f, src, dst), Stat(f, src), dn, MkdirP(f, ParentNode(dn)))
    IN  onto(pathResolve(dst))

\* the tree with node s and everything beneath it renamed to d
MoveTree(f, s, d) ==
    LET moved == { x \in DOMAIN f : IsBeneath(x, s) }
        kept == DOMAIN f \ moved
    IN  [m \in kept \cup { d \o Drop(x, Len(s)) : x \in moved } |->
            IF m \in kept /\ ~IsBeneath(m, d) THEN f[m] ELSE f[s \o Drop(m, Len(d))]]

\* fs-extra move(src, dst) without the overwrite option
Move(f, src, dst) ==
    LET moved(chk, s, dn, up) ==
            IF chk # "" THEN [err |-> chk, fs |-> f]
            ELSE IF up.err # "" THEN [err |-> up.err, fs |-> f]
            ELSE IF Exists(up.fs, dn) THEN [err |-> "EEXIST", fs |-> up.fs]
            ELSE [err |-> "", fs |-> MoveTree(up.fs, s.node, dn)]
        onto(dn) == moved(CheckPaths(f, src, dst), Stat(f, src), dn, MkdirP(f, ParentNode(dn)))
    IN  onto(pathResolve(dst))

-----------------------------------------------------------------------------
(* FileError, promises and the calls in progress *)

NOT_FOUND_ERR == 1
SECURITY_ERR == 2
ABORT_ERR == 3
NOT_READABLE_ERR == 4
ENCODING_ERR == 5
NO_MODIFICATION_ALLOWED_ERR == 6
INVALID_STATE_ERR == 7
SYNTAX_ERR == 8
INVALID_MODIFICATION_ERR == 9
QUOTA_EXCEEDED_ERR == 10
TYPE_MISMATCH_ERR == 11
PATH_EXISTS_ERR == 12

isNotFoundError(err) == err = "ENOENT"

\* notFoundOrError(error): the code the returned promise is rejected with
notFoundOrError(err) == IF isNotFoundError(err) THEN NOT_FOUND_ERR ELSE INVALID_STATE_ERR

\* the value undefined, and a number, as values a promise is settled with
Undefined == [undefined |-> TRUE]
Number(n) == [number |-> n]

\* the argument list of a call: every operation reads the fields it declares
Args(uri, uri2, name, create, exclusive, data, num) ==
    [uri |-> uri, uri2 |-> uri2, name |-> name, create |-> create,
     exclusive |-> exclusive, data |-> data, num |-> num]

\* the bound on the fs.move calls in flight at once
MaxDetached == 1

NoFd == [open |-> FALSE, node |-> <<>>]

\* a call with I/O outstanding: pc names the I/O it waits for, entry and dst
\* are the Entry objects the handler resolved, statErr and stats what its stat
\* callback received
Call(op, args, pc, entry, dst) ==
    [op |-> op, args |-> args, pc |-> pc, entry |-> entry, dst |-> dst,
     statErr |-> "none", stats |-> "", fd |-> NoFd]

\* the settled promise of call c
Settle(c, outcome, code, value) ==
    [op |-> c.op, args |-> c.args, entry |-> c.entry, dst |-> c.dst,
     statErr |-> c.statErr, stats |-> c.stats,
     outcome |-> outcome, code |-> code, value |-> value]

\* what a callback does next: wait for the I/O pc, or settle the promise
Wait(pc) == [pc |-> pc, outcome |-> "", code |-> 0, value |-> Undefined]
Reject(code) == [pc |-> "done", outcome |-> "error", code |-> code, value |-> Undefined]
Resolve(value) == [pc |-> "done", outcome |-> "success", code |-> 0, value |-> value]

\* no promise settled and not yet delivered
NoCall ==
    [op |-> "none", args |-> Args(<<>>, <<>>, <<>>, FALSE, FALSE, <<>>, 0),
     entry |-> NullEntry, dst |-> NullEntry, statErr |-> "none", stats |-> "",
     outcome |-> "", code |-> 0, value |-> Undefined]

RemoveAt(sq, i) == SubSeq(sq, 1, i - 1) \o SubSeq(sq, i + 1, Len(sq))

Modifiable(entry) == RootOf(fileLocations, entry.root).modifiable

OSPath(entry) == getOSPath(fileLocations, entry)

\* the history variable: the nodes a successful getFile with create and
\* exclusive has created, for as long as they exist
NewlyExclusive ==
    IF /\ last' # last
       /\ last'.op = "getFile"
       /\ last'.outcome = "success"
       /\ last'.args.create /\ last'.args.exclusive
    THEN {pathResolve(getOSPath(fileLocations', last'.entry))}
    ELSE {}

History == exclCreated' = { n \in exclCreated \cup NewlyExclusive : Exists(fs', n) }

\* the handler of a call returns: either its promise is settled at once (the
\* call made no I/O) or it waits for its first I/O
Begin(c, step) ==
    /\ calls' = IF step.pc = "done" THEN calls ELSE Append(calls, c)
    /\ last' = IF step.pc = "done" THEN Settle(c, step.outcome, step.code, step.value)
               ELSE last

\* the callback of the I/O of calls[i] returns, c being the call's record now
Advance(i, c, step) ==
    /\ calls' = IF step.pc = "done" THEN RemoveAt(calls, i)
                ELSE [calls EXCEPT ![i] = [c EXCEPT !.pc = step.pc]]
    /\ last' = IF step.pc = "done" THEN Settle(c, step.outcome, step.code, step.value)
               ELSE last

Waiting(i, op, pc) == i \in DOMAIN calls /\ calls[i].op = op /\ calls[i].pc = pc

\* operations are issued one at a time: the caller issues the next one when
\* the previous one was answered
Idle == calls = <<>> /\ last = NoCall

WithStat(c, st) == [c EXCEPT !.statErr = st.err, !.stats = st.kind]

-----------------------------------------------------------------------------
(* The arguments operations are called with *)

InitContexts ==
    { Ctx(AppScheme, <<"k">>, <<>>), Ctx(AppScheme, <<>>, <<>>), Ctx(EFS_SCHEME, <<"k">>, <<>>) }

Url(root, path) == EFS_PREFIX \o root \o path

NoSuchRoot == <<"n","o","p","e">>

ParentUrls ==
    { Url(DataName, <<"/">>), Url(DataName, <<"/","a","/">>),
      Url(ApplicationName, <<"/">>), Url(NoSuchRoot, <<"/">>) }

DstParentUrls ==
    { Url(DataName, <<"/">>), Url(ApplicationName, <<"/">>), Url(NoSuchRoot, <<"/">>) }

EntryUrls ==
    { Url(DataName, <<"/","a">>), Url(DataName, <<"/","b">>),
      Url(ApplicationName, <<"/","b">>), Url(NoSuchRoot, <<"/","a">>) }

SrcUrls ==
    { Url(DataName, <<"/","a">>), Url(ApplicationName, <<"/","a">>),
      Url(NoSuchRoot, <<"/","a">>) }

FileUrls ==
    { Url(DataName, <<"/","b">>), Url(ApplicationName, <<"/","a">>), Url(NoSuchRoot, <<"/","a">>) }

Names == { <<"a">>, <<"b">> }

WriteData == { <<>>, <<104, 105>> }

WritePositions == {0}

TruncateSizes == {0}

ModificationTimes == {1}

\* outputFormat, startPos and endPos of the readAs calls
ReadCall(outputFormat, startPos, endPos) ==
    [outputFormat |-> outputFormat, startPos |-> startPos, endPos |-> endPos]

ReadCalls ==
    { ReadCall("arrayBuffer", 0, 1), ReadCall("arrayBuffer", 1, 2),
      ReadCall("arrayBuffer", 0, 2), ReadCall("arrayBuffer", 2, 2),
      ReadCall("text", 0, 1), ReadCall("text", 1, 2),
      ReadCall("dataURL", 0, 2), ReadCall("binaryString", 1, 0) }

\* the type argument of requestFileSystem: TEMPORARY, PERSISTENT and a value
\* that is neither
RequestTypes == {0, 1, 2}

\* the urls of the operations that only look at an entry
StatUrls ==
    { Url(DataName, <<"/">>), Url(DataName, <<"/","a">>),
      Url(DataName, <<"/","a","/">>), Url(DataName, <<"/","a","/","b">>),
      Url(NoSuchRoot, <<"/","a">>) }

\* parentEntry.getChild(name) where the handler got a parent entry
DstEntry(parentEntry, name) ==
    IF parentEntry = NullEntry THEN NullEntry ELSE getChild(parentEntry, name)

\* the entries getEntryForUrl resolves the urls to
Resolved(urls) == [u \in urls |-> getEntryForUrl(fileLocations, u)]

-----------------------------------------------------------------------------
(* getFile *)

\* a faulty if chain: the branch for create and exclusive on an existing path
\* is missing
getFileBranchNotExclusive(create, exclusive, exists, kind) ==
    IF create /\ ~exists THEN "createFile"
    ELSE IF create /\ exists THEN (IF kind = "file" THEN "createFile" ELSE "INVALID_MODIFICATION_ERR")
    ELSE IF ~create /\ ~exists THEN "NOT_FOUND_ERR"
    ELSE IF ~create /\ exists /\ kind = "dir" THEN "TYPE_MISMATCH_ERR"
    ELSE "resolve"

\* a faulty if chain: a path that does not exist is created also when
\* create is not set
getFileBranchCreatesAnyway(create, exclusive, exists, kind) ==
    IF create /\ exclusive /\ exists THEN "PATH_EXISTS_ERR"
    ELSE IF ~exists THEN "createFile"
    ELSE IF create /\ exists THEN (IF kind = "file" THEN "createFile" ELSE "INVALID_MODIFICATION_ERR")
    ELSE IF ~create /\ exists /\ kind = "dir" THEN "TYPE_MISMATCH_ERR"
    ELSE "resolve"

\* the if chain of the stat callback of getFile
getFileBranch(create, exclusive, exists, kind) ==
    IF create /\ exclusive /\ exists THEN "PATH_EXISTS_ERR"
    ELSE IF create /\ ~exists THEN "createFile"
    ELSE IF create /\ exists THEN (IF kind = "file" THEN "createFile" ELSE "INVALID_MODIFICATION_ERR")
    ELSE IF ~create /\ ~exists THEN "NOT_FOUND_ERR"
    ELSE IF ~create /\ exists /\ kind = "dir" THEN "TYPE_MISMATCH_ERR"
    ELSE "resolve"

\* createFile(), up to its fs.open
createFile(modifiable) ==
    IF ~modifiable THEN Reject(INVALID_MODIFICATION_ERR) ELSE Wait("open")

\* the stat callback of getFile
getFileOnStat(c, st, modifiable, info) ==
    IF st.err # "" /\ ~isNotFoundError(st.err) THEN Reject(NOT_FOUND_ERR)
    ELSE LET branch == getFileBranch(c.args.create, c.args.exclusive, st.err = "", st.kind)
         IN  CASE branch = "PATH_EXISTS_ERR" -> Reject(PATH_EXISTS_ERR)
               [] branch = "createFile" -> createFile(modifiable)
               [] branch = "INVALID_MODIFICATION_ERR" -> Reject(INVALID_MODIFICATION_ERR)
               [] branch = "NOT_FOUND_ERR" -> Reject(NOT_FOUND_ERR)
               [] branch = "TYPE_MISMATCH_ERR" -> Reject(TYPE_MISMATCH_ERR)
               [] OTHER -> Resolve(info)

\* getFile, up to its fs.stat
getFileChecks(parentEntry) ==
    IF parentEntry = NullEntry THEN Reject(NOT_FOUND_ERR) ELSE Wait("stat")

GetFile ==
    /\ Idle
    /\ \E parentEntries \in {Resolved(ParentUrls)} :
           \E parentUri \in ParentUrls, fileName \in Names :
             LET parentEntry == parentEntries[parentUri]
                 entry == DstEntry(parentEntry, fileName)
             IN  \E create \in BOOLEAN, exclusive \in BOOLEAN :
                   Begin(Call("getFile",
                              Args(parentUri, <<>>, fileName, create, exclusive, <<>>, 0),
                              "stat", entry, NullEntry),
                         getFileChecks(parentEntry))
    /\ UNCHANGED <<arg, res, initialized, fileLocations, fs, detached>>
    /\ History

GetFileStat(i) ==
    /\ Waiting(i, "getFile", "stat")
    /\ LET c == calls[i]
       IN  \E st \in {Stat(fs, OSPath(c.entry))} :
             Advance(i, WithStat(c, st),
                     getFileOnStat(c, st, Modifiable(c.entry),
                                   getInfo(fileLocations, c.entry, TRUE)))
    /\ UNCHANGED <<arg, res, initialized, fileLocations, fs, detached>>
    /\ History

\* the fs.open callback of createFile
GetFileOpen(i) ==
    /\ Waiting(i, "getFile", "open")
    /\ LET c == calls[i]
       IN  \E o \in {OpenW(fs, OSPath(c.entry))} :
             /\ fs' = o.fs
             /\ IF o.err # "" THEN Advance(i, c, Reject(INVALID_STATE_ERR))
                ELSE Advance(i, [c EXCEPT !.fd = [open |-> TRUE, node |-> o.node]], Wait("close"))
    /\ UNCHANGED <<arg, res, initialized, fileLocations, detached>>
    /\ History

\* the fs.close callback of createFile
GetFileClose(i) ==
    /\ Waiting(i, "getFile", "close")
    /\ LET c == calls[i]
       IN  Advance(i, [c EXCEPT !.fd = NoFd], Resolve(getInfo(fileLocations, c.entry, TRUE)))
    /\ UNCHANGED <<arg, res, initialized, fileLocations, fs, detached>>
    /\ History

-----------------------------------------------------------------------------
(* getDirectory *)

\* a faulty if chain: the kind of the existing entry is not looked at
getDirectoryBranchAnyKind(create, exclusive, exists, kind) ==
    IF create /\ exclusive /\ exists THEN "PATH_EXISTS_ERR"
    ELSE IF create /\ ~exists THEN "mkdir"
    ELSE IF ~create /\ ~exists THEN "NOT_FOUND_ERR"
    ELSE "resolve"

\* the if chain of the stat callback of getDirectory
getDirectoryBranch(create, exclusive, exists, kind) ==
    IF create /\ exclusive /\ exists THEN "PATH_EXISTS_ERR"
    ELSE IF create /\ ~exists THEN "mkdir"
    ELSE IF create /\ exists THEN (IF kind = "dir" THEN "resolve" ELSE "INVALID_MODIFICATION_ERR")
    ELSE IF ~create /\ ~exists THEN "NOT_FOUND_ERR"
    ELSE IF ~create /\ exists /\ kind = "file" THEN "TYPE_MISMATCH_ERR"
    ELSE "resolve"

\* the stat callback of getDirectory
getDirectoryOnStat(c, st, modifiable, info) ==
    IF st.err # "" /\ ~isNotFoundError(st.err) THEN Reject(INVALID_STATE_ERR)
    ELSE LET branch == getDirectoryBranch(c.args.create, c.args.exclusive, st.err = "", st.kind)
         IN  CASE branch = "PATH_EXISTS_ERR" -> Reject(PATH_EXISTS_ERR)
               [] branch = "mkdir" ->
                    IF ~modifiable THEN Reject(INVALID_MODIFICATION_ERR) ELSE Wait("mkdir")
               [] branch = "INVALID_MODIFICATION_ERR" -> Reject(INVALID_MODIFICATION_ERR)
               [] branch = "NOT_FOUND_ERR" -> Reject(NOT_FOUND_ERR)
               [] branch = "TYPE_MISMATCH_ERR" -> Reject(TYPE_MISMATCH_ERR)
               [] OTHER -> Resolve(info)

\* getDirectory, up to its fs.stat
getDirectoryChecks(parentEntry) ==
    IF parentEntry = NullEntry THEN Reject(NOT_FOUND_ERR) ELSE Wait("stat")

GetDirectory ==
    /\ Idle
    /\ \E parentEntries \in {Resolved(ParentUrls)} :
           \E parentUri \in ParentUrls, dirName \in Names :
             LET parentEntry == parentEntries[parentUri]
                 entry == DstEntry(parentEntry, dirName)
             IN  \E create \in BOOLEAN, exclusive \in BOOLEAN :
                   Begin(Call("getDirectory",
                              Args(parentUri, <<>>, dirName, create, exclusive, <<>>, 0),
                              "stat", entry, NullEntry),
                         getDirectoryChecks(parentEntry))
    /\ UNCHANGED <<arg, res, initialized, fileLocations, fs, detached>>
    /\ History

GetDirectoryStat(i) ==
    /\ Waiting(i, "getDirectory", "stat")
    /\ LET c == calls[i]
       IN  \E st \in {Stat(fs, OSPath(c.entry))} :
             Advance(i, WithStat(c, st),
                     getDirectoryOnStat(c, st, Modifiable(c.entry),
                                        getInfo(fileLocations, c.entry, FALSE)))
    /\ UNCHANGED <<arg, res, initialized, fileLocations, fs, detached>>
    /\ History

\* the fs.mkdir callback of getDirectory
GetDirectoryMkdir(i) ==
    /\ Waiting(i, "getDirectory", "mkdir")
    /\ LET c == calls[i]
       IN  \E m \in {Mkdir(fs, OSPath(c.entry))} :
             /\ fs' = m.fs
             /\ IF m.err # "" THEN Advance(i, c, Reject(PATH_EXISTS_ERR))
                ELSE Advance(i, c, Resolve(getInfo(fileLocations, c.entry, FALSE)))
    /\ UNCHANGED <<arg, res, initialized, fileLocations, detached>>
    /\ History

-----------------------------------------------------------------------------
(* remove and removeRecursively *)

\* a faulty guard: remove never looks into the directory
removeNeverRefused(isDirectory, length) == FALSE

\* the guard of remove's stat callback: a directory that is not empty
removeRefused(isDirectory, length) == isDirectory /\ length # 0

\* the checks every modifying handler makes before its first I/O
resolveModifiable(entry, modifiable, pc) ==
    IF entry = NullEntry THEN Reject(NOT_FOUND_ERR)
    ELSE IF ~modifiable THEN Reject(INVALID_MODIFICATION_ERR)
    ELSE Wait(pc)

EntryModifiable(entry) == entry # NullEntry /\ Modifiable(entry)

RemoveEntry ==
    /\ Idle
    /\ \E uri \in EntryUrls :
         \E entry \in {getEntryForUrl(fileLocations, uri)} :
           LET args == Args(uri, <<>>, <<>>, FALSE, FALSE, <<>>, 0)
           IN  Begin(Call("remove", args, "stat", entry, NullEntry),
                     resolveModifiable(entry, EntryModifiable(entry), "stat"))
    /\ UNCHANGED <<arg, res, initialized, fileLocations, fs, detached>>
    /\ History

RemoveStat(i) ==
    /\ Waiting(i, "remove", "stat")
    /\ LET c == calls[i]
       IN  \E st \in {Stat(fs, OSPath(c.entry))} :
             Advance(i, WithStat(c, st),
                     IF st.err # "" THEN Reject(notFoundOrError(st.err))
                     ELSE IF removeRefused(st.kind = "dir", ReaddirLength(fs, OSPath(c.entry)))
                          THEN Reject(INVALID_MODIFICATION_ERR)
                          ELSE Wait("rm"))
    /\ UNCHANGED <<arg, res, initialized, fileLocations, fs, detached>>
    /\ History

\* fs.remove settles
RemoveRm(i) ==
    /\ Waiting(i, "remove", "rm")
    /\ LET c == calls[i]
       IN  \E r \in {Remove(fs, OSPath(c.entry))} :
             /\ fs' = r.fs
             /\ Advance(i, c, IF r.err # "" THEN Reject(NO_MODIFICATION_ALLOWED_ERR)
                              ELSE Resolve(Undefined))
    /\ UNCHANGED <<arg, res, initialized, fileLocations, detached>>
    /\ History

RemoveRecursively ==
    /\ Idle
    /\ \E uri \in EntryUrls :
         \E entry \in {getEntryForUrl(fileLocations, uri)} :
           LET args == Args(uri, <<>>, <<>>, FALSE, FALSE, <<>>, 0)
           IN  Begin(Call("removeRecursively", args, "stat", entry, NullEntry),
                     resolveModifiable(entry, EntryModifiable(entry), "stat"))
    /\ UNCHANGED <<arg, res, initialized, fileLocations, fs, detached>>
    /\ History

RemoveRecursivelyStat(i) ==
    /\ Waiting(i, "removeRecursively", "stat")
    /\ LET c == calls[i]
       IN  \E st \in {Stat(fs, OSPath(c.entry))} :
             Advance(i, WithStat(c, st),
                     IF st.err # "" THEN Reject(notFoundOrError(st.err)) ELSE Wait("rm"))
    /\ UNCHANGED <<arg, res, initialized, fileLocations, fs, detached>>
    /\ History

RemoveRecursivelyRm(i) ==
    /\ Waiting(i, "removeRecursively", "rm")
    /\ LET c == calls[i]
       IN  \E r \in {Remove(fs, OSPath(c.entry))} :
             /\ fs' = r.fs
             /\ Advance(i, c, IF r.err # "" THEN Reject(NO_MODIFICATION_ALLOWED_ERR)
                              ELSE Resolve(Undefined))
    /\ UNCHANGED <<arg, res, initialized, fileLocations, detached>>
    /\ History

-----------------------------------------------------------------------------
(* copyTo and moveTo *)

\* a faulty comparison: the two paths are never found equal
neverSamePath(srcOSPath, dstOSPath) == FALSE

\* path.resolve(srcEntry.getOSPath()) === path.resolve(dstEntry.getOSPath())
samePath(srcOSPath, dstOSPath) == pathResolve(srcOSPath) = pathResolve(dstOSPath)

\* copyTo, up to its fs.stat
copyToChecks(srcEntry, dstParentEntry, dstEntry) ==
    IF srcEntry = NullEntry THEN Reject(NOT_FOUND_ERR)
    ELSE IF dstParentEntry = NullEntry THEN Reject(NOT_FOUND_ERR)
    ELSE IF ~Modifiable(dstEntry) THEN Reject(INVALID_MODIFICATION_ERR)
    ELSE IF samePath(OSPath(srcEntry), OSPath(dstEntry)) THEN Reject(INVALID_MODIFICATION_ERR)
    ELSE Wait("stat")

\* moveTo, up to its fs.stat
moveToChecks(srcEntry, dstParentEntry, dstEntry) ==
    IF srcEntry = NullEntry THEN Reject(NOT_FOUND_ERR)
    ELSE IF ~Modifiable(srcEntry) THEN Reject(INVALID_MODIFICATION_ERR)
    ELSE IF dstParentEntry = NullEntry THEN Reject(NOT_FOUND_ERR)
    ELSE IF ~Modifiable(dstEntry) THEN Reject(INVALID_MODIFICATION_ERR)
    ELSE IF samePath(OSPath(srcEntry), OSPath(dstEntry)) THEN Reject(INVALID_MODIFICATION_ERR)
    ELSE Wait("stat")

CopyTo ==
    /\ Idle
    /\ \E srcEntries \in {Resolved(SrcUrls)}, dstParentEntries \in {Resolved(DstParentUrls)} :
           \E srcUri \in SrcUrls, dstParentUri \in DstParentUrls, dstName \in Names :
             LET srcEntry == srcEntries[srcUri]
                 dstParentEntry == dstParentEntries[dstParentUri]
                 dstEntry == DstEntry(dstParentEntry, dstName)
                 args == Args(srcUri, dstParentUri, dstName, FALSE, FALSE, <<>>, 0)
             IN  Begin(Call("copyTo", args, "stat", srcEntry, dstEntry),
                       copyToChecks(srcEntry, dstParentEntry, dstEntry))
    /\ UNCHANGED <<arg, res, initialized, fileLocations, fs, detached>>
    /\ History

CopyToStat(i) ==
    /\ Waiting(i, "copyTo", "stat")
    /\ LET c == calls[i]
       IN  \E st \in {Stat(fs, OSPath(c.entry))} :
             Advance(i, WithStat(c, st),
                     IF st.err # "" THEN Reject(notFoundOrError(st.err)) ELSE Wait("copy"))
    /\ UNCHANGED <<arg, res, initialized, fileLocations, fs, detached>>
    /\ History

\* fs.copy settles
CopyToCopy(i) ==
    /\ Waiting(i, "copyTo", "copy")
    /\ LET c == calls[i]
       IN  \E r \in {Copy(fs, OSPath(c.entry), OSPath(c.dst))} :
             /\ fs' = r.fs
             /\ Advance(i, c, IF r.err # "" THEN Reject(ENCODING_ERR)
                              ELSE Resolve(getInfo(fileLocations, c.dst, c.stats # "dir")))
    /\ UNCHANGED <<arg, res, initialized, fileLocations, detached>>
    /\ History

MoveTo ==
    /\ Idle
    /\ Len(detached) < MaxDetached
    /\ \E srcEntries \in {Resolved(SrcUrls)}, dstParentEntries \in {Resolved(DstParentUrls)} :
           \E srcUri \in SrcUrls, dstParentUri \in DstParentUrls, dstName \in Names :
             LET srcEntry == srcEntries[srcUri]
                 dstParentEntry == dstParentEntries[dstParentUri]
                 dstEntry == DstEntry(dstParentEntry, dstName)
                 args == Args(srcUri, dstParentUri, dstName, FALSE, FALSE, <<>>, 0)
             IN  Begin(Call("moveTo", args, "stat", srcEntry, dstEntry),
                       moveToChecks(srcEntry, dstParentEntry, dstEntry))
    /\ UNCHANGED <<arg, res, initialized, fileLocations, fs, detached>>
    /\ History

\* the stat callback of moveTo starts fs.move and returns nothing: the promise
\* moveTo returned is fulfilled with undefined while the move is in flight
MoveToStat(i) ==
    /\ Waiting(i, "moveTo", "stat")
    /\ LET c == calls[i]
       IN  \E st \in {Stat(fs, OSPath(c.entry))} :
             /\ Advance(i, WithStat(c, st),
                        IF st.err # "" THEN Reject(notFoundOrError(st.err))
                        ELSE Resolve(Undefined))
             /\ detached' = IF st.err # "" THEN detached
                            ELSE Append(detached, [src |-> OSPath(c.entry), dst |-> OSPath(c.dst)])
    /\ UNCHANGED <<arg, res, initialized, fileLocations, fs>>
    /\ History

\* a file descriptor keeps naming its file when the file is renamed
Retarget(c, moved, s, d) ==
    IF moved /\ c.fd.open /\ IsBeneath(c.fd.node, s)
    THEN [c EXCEPT !.fd.node = d \o Drop(c.fd.node, Len(s))] ELSE c

\* fs.move settles; nothing awaits its promise
MoveSettles(j) ==
    /\ j \in DOMAIN detached
    /\ \E m \in {Move(fs, detached[j].src, detached[j].dst)} :
         LET s == pathResolve(detached[j].src)
             d == pathResolve(detached[j].dst)
         IN  /\ fs' = m.fs
             /\ calls' = [i \in DOMAIN calls |-> Retarget(calls[i], m.err = "", s, d)]
    /\ detached' = RemoveAt(detached, j)
    /\ UNCHANGED <<arg, res, initialized, fileLocations, last>>
    /\ History

-----------------------------------------------------------------------------
(* write, truncate and setMetadata *)

\* write, up to its fs.open: data is checked before the url
writeChecks(data, entry, modifiable) ==
    IF data = <<>> THEN Reject(NOT_FOUND_ERR)
    ELSE resolveModifiable(entry, modifiable, "open")

\* the handler of write(uri, data, position) returns
writeBegin(uri, data, position) ==
    \E entry \in {getEntryForUrl(fileLocations, uri)} :
        Begin(Call("write", Args(uri, <<>>, <<>>, FALSE, FALSE, data, position),
                   "open", entry, NullEntry),
              writeChecks(data, entry, EntryModifiable(entry)))

Write ==
    /\ Idle
    /\ \E uri \in FileUrls, data \in WriteData, position \in WritePositions :
         writeBegin(uri, data, position)
    /\ UNCHANGED <<arg, res, initialized, fileLocations, fs, detached>>
    /\ History

WriteOpen(i) ==
    /\ Waiting(i, "write", "open")
    /\ LET c == calls[i]
       IN  \E o \in {OpenW(fs, OSPath(c.entry))} :
             /\ fs' = o.fs
             /\ IF o.err # "" THEN Advance(i, c, Reject(INVALID_MODIFICATION_ERR))
                ELSE Advance(i, [c EXCEPT !.fd = [open |-> TRUE, node |-> o.node]], Wait("write"))
    /\ UNCHANGED <<arg, res, initialized, fileLocations, detached>>
    /\ History

\* fs.write settles: the descriptor keeps naming the file it was opened on
WriteWrite(i) ==
    /\ Waiting(i, "write", "write")
    /\ LET c == calls[i]
       IN  /\ fs' = IF IsFile(fs, c.fd.node)
                    THEN WriteAt(fs, c.fd.node, c.args.data, c.args.num) ELSE fs
           /\ Advance(i, c, Wait("close"))
    /\ UNCHANGED <<arg, res, initialized, fileLocations, detached>>
    /\ History

WriteClose(i) ==
    /\ Waiting(i, "write", "close")
    /\ LET c == calls[i]
       IN  Advance(i, [c EXCEPT !.fd = NoFd], Resolve(Number(Len(c.args.data))))
    /\ UNCHANGED <<arg, res, initialized, fileLocations, fs, detached>>
    /\ History

TruncateFile ==
    /\ Idle
    /\ \E uri \in FileUrls, size \in TruncateSizes :
         \E entry \in {getEntryForUrl(fileLocations, uri)} :
           LET args == Args(uri, <<>>, <<>>, FALSE, FALSE, <<>>, size)
           IN  Begin(Call("truncate", args, "truncate", entry, NullEntry),
                     resolveModifiable(entry, EntryModifiable(entry), "truncate"))
    /\ UNCHANGED <<arg, res, initialized, fileLocations, fs, detached>>
    /\ History

TruncateSettles(i) ==
    /\ Waiting(i, "truncate", "truncate")
    /\ LET c == calls[i]
       IN  \E r \in {Truncate(fs, OSPath(c.entry), c.args.num)} :
             /\ fs' = r.fs
             /\ Advance(i, c, IF r.err # "" THEN Reject(notFoundOrError(r.err))
                              ELSE Resolve(Number(c.args.num)))
    /\ UNCHANGED <<arg, res, initialized, fileLocations, detached>>
    /\ History

SetMetadata ==
    /\ Idle
    /\ \E uri \in FileUrls, modificationTime \in ModificationTimes :
         \E entry \in {getEntryForUrl(fileLocations, uri)} :
           LET args == Args(uri, <<>>, <<>>, FALSE, FALSE, <<>>, modificationTime)
           IN  Begin(Call("setMetadata", args, "utimes", entry, NullEntry),
                     resolveModifiable(entry, EntryModifiable(entry), "utimes"))
    /\ UNCHANGED <<arg, res, initialized, fileLocations, fs, detached>>
    /\ History

SetMetadataSettles(i) ==
    /\ Waiting(i, "setMetadata", "utimes")
    /\ LET c == calls[i]
       IN  \E r \in {Utimes(fs, OSPath(c.entry), c.args.num)} :
             /\ fs' = r.fs
             /\ Advance(i, c, IF r.err # "" THEN Reject(notFoundOrError(r.err))
                              ELSE Resolve(Undefined))
    /\ UNCHANGED <<arg, res, initialized, fileLocations, detached>>
    /\ History

-----------------------------------------------------------------------------
(* readAsText, readAsDataURL, readAsBinaryString, readAsArrayBuffer *)

\* String.fromCharCode on the bytes the model writes and reads
fromCharCode(b) == CASE b = 104 -> "h" [] b = 105 -> "i" [] b = 0 -> "NUL"

\* buf.toString('utf8'), buf.toString('binary'): every byte of the model is
\* below 128 and decodes to the character with that code
toText(buf) == [k \in 1..Len(buf) |-> fromCharCode(buf[k])]

B64 == <<"A","B","C","D","E","F","G","H","I","J","K","L","M","N","O","P",
         "Q","R","S","T","U","V","W","X","Y","Z","a","b","c","d","e","f",
         "g","h","i","j","k","l","m","n","o","p","q","r","s","t","u","v",
         "w","x","y","z","0","1","2","3","4","5","6","7","8","9","+","/">>

\* buf.toString('base64')
RECURSIVE toBase64(_)
toBase64(buf) ==
    IF buf = <<>> THEN <<>>
    ELSE LET n == Len(buf)
             v == buf[1] * 65536 + (IF n >= 2 THEN buf[2] ELSE 0) * 256
                  + (IF n >= 3 THEN buf[3] ELSE 0)
         IN  <<B64[(v \div 262144) + 1],
               B64[((v \div 4096) % 64) + 1],
               IF n >= 2 THEN B64[((v \div 64) % 64) + 1] ELSE "=",
               IF n >= 3 THEN B64[(v % 64) + 1] ELSE "=">>
             \o toBase64(Drop(buf, 3))

DATA_URL_PREFIX == <<"d","a","t","a",":",";","b","a","s","e","6","4",",">>

\* the switch over outputFormat: the value readAs resolves with
readValue(outputFormat, buf) ==
    CASE outputFormat = "text" -> [text |-> toText(buf)]
      [] outputFormat = "dataURL" -> [text |-> DATA_URL_PREFIX \o toBase64(buf)]
      [] outputFormat = "arrayBuffer" -> [bytes |-> buf]
      [] outputFormat = "binaryString" -> [text |-> toText(buf)]

\* the argument list of a readAs call
ReadArgs(uri, outputFormat, startPos, endPos) ==
    Args(uri, <<>>, <<>>, FALSE, FALSE, <<>>, startPos)
        @@ [outputFormat |-> outputFormat, endPos |-> endPos]

\* readAs, up to its fs.open
readAsChecks(entry) ==
    IF entry = NullEntry THEN Reject(NOT_FOUND_ERR) ELSE Wait("open")

ReadAs ==
    /\ Idle
    /\ \E uri \in FileUrls, r \in ReadCalls :
         \E entry \in {getEntryForUrl(fileLocations, uri)} :
           Begin(Call("readAs", ReadArgs(uri, r.outputFormat, r.startPos, r.endPos),
                      "open", entry, NullEntry),
                 readAsChecks(entry))
    /\ UNCHANGED <<arg, res, initialized, fileLocations, fs, detached>>
    /\ History

\* the fs.open callback of readAs. Buffer.alloc throws on a negative size:
\* the callback ends with the exception, the promise is never settled and
\* nothing closes the descriptor (pc "never": no I/O of the call is left)
ReadAsOpen(i) ==
    /\ Waiting(i, "readAs", "open")
    /\ LET c == calls[i]
       IN  \E o \in {OpenR(fs, OSPath(c.entry))} :
             IF o.err # "" THEN Advance(i, c, Reject(NOT_FOUND_ERR))
             ELSE Advance(i, [c EXCEPT !.fd = [open |-> TRUE, node |-> o.node]],
                          IF c.args.endPos - c.args.num < 0 THEN Wait("never")
                          ELSE Wait("read"))
    /\ UNCHANGED <<arg, res, initialized, fileLocations, fs, detached>>
    /\ History

\* fs.read settles: the promise of readAs is resolved or rejected, the
\* descriptor is closed after that
ReadAsRead(i) ==
    /\ Waiting(i, "readAs", "read")
    /\ LET c == calls[i]
       IN  \E r \in {ReadAt(fs, c.fd.node, c.args.endPos - c.args.num, c.args.num)} :
             /\ calls' = [calls EXCEPT ![i] = [c EXCEPT !.pc = "close"]]
             /\ last' = IF r.err # "" THEN Settle(c, "error", NOT_READABLE_ERR, Undefined)
                        ELSE Settle(c, "success", 0, readValue(c.args.outputFormat, r.buf))
    /\ UNCHANGED <<arg, res, initialized, fileLocations, fs, detached>>
    /\ History

\* fs.close(fd), the last step of the chain
ReadAsClose(i) ==
    /\ Waiting(i, "readAs", "close")
    /\ calls' = RemoveAt(calls, i)
    /\ UNCHANGED <<arg, res, initialized, fileLocations, fs, detached, last>>
    /\ History

-----------------------------------------------------------------------------
(* plugin.initialize and the dispatcher *)

RejectWith(message) ==
    [pc |-> "done", outcome |-> "error", code |-> 0, value |-> [message |-> message]]

Throw(message) ==
    [pc |-> "done", outcome |-> "throw", code |-> 0, value |-> [message |-> message]]

NoArgs == Args(<<>>, <<>>, <<>>, FALSE, FALSE, <<>>, 0)

\* a faulty plugin.initialize that does not look at _initialized
initializeChecksAgain(wasInitialized, ctx) ==
    IF ctx.packageName = <<>> THEN RejectWith("cannot find PACKAGE_NAME")
    ELSE IF getSchemeConfig(ctx).throws THEN Throw("files scheme")
    ELSE Wait("ready")

\* plugin.initialize, up to app.whenReady()
initializeChecks(wasInitialized, ctx) ==
    IF wasInitialized THEN RejectWith("already initialized")
    ELSE IF ctx.packageName = <<>> THEN RejectWith("cannot find PACKAGE_NAME")
    ELSE IF getSchemeConfig(ctx).throws THEN Throw("files scheme")
    ELSE Wait("ready")

Initialize ==
    /\ Idle
    /\ \E ctx \in InitContexts :
         \E step \in {initializeChecks(initialized, ctx)} :
           /\ initialized' = TRUE
           /\ fileLocations' = IF step.pc = "ready" THEN fileLocations \o Roots(ctx)
                               ELSE fileLocations
           /\ Begin(Call("initialize", NoArgs, "ready", NullEntry, NullEntry), step)
    /\ UNCHANGED <<arg, res, fs, detached>>
    /\ History

\* FileLocation.init of the locations fls, one after the other
RECURSIVE InitLocations(_, _)
InitLocations(f, fls) ==
    IF fls = <<>> THEN [err |-> "", fs |-> f]
    ELSE LET base == Head(fls).osPathDef.base
             init(st) ==
                 IF st.err = "" THEN [err |-> IF st.kind = "dir" THEN "" ELSE "ENOTDIR", fs |-> f]
                 ELSE IF ~isNotFoundError(st.err) THEN [err |-> st.err, fs |-> f]
                 ELSE MkdirP(f, pathResolve(base))
             then(one, rest) == [err |-> IF one.err # "" THEN one.err ELSE rest.err, fs |-> rest.fs]
             next(one) == then(one, InitLocations(one.fs, Tail(fls)))
         IN  next(init(Stat(f, base)))

\* the app is ready: every location is initialized
InitializeReady(i) ==
    /\ Waiting(i, "initialize", "ready")
    /\ \E r \in {InitLocations(fs, fileLocations)} :
         /\ fs' = r.fs
         /\ Advance(i, calls[i], IF r.err # "" THEN RejectWith(r.err) ELSE Resolve(Undefined))
    /\ UNCHANGED <<arg, res, initialized, fileLocations, detached>>
    /\ History

\* the dispatcher hands the settled promise to callbackContext.success or
\* callbackContext.error
Callback ==
    /\ last # NoCall
    /\ last' = NoCall
    /\ UNCHANGED <<arg, res, initialized, fileLocations, fs, calls, detached>>
    /\ History

-----------------------------------------------------------------------------
(* resolveLocalFileSystemURI, getParent, getMetadata, getFileMetadata and *)
(* readEntries                                                            *)

UriArgs(uri) == Args(uri, <<>>, <<>>, FALSE, FALSE, <<>>, 0)

\* the check every handler starts with: the url has to resolve to an Entry
entryChecks(entry, pc) ==
    IF entry = NullEntry THEN Reject(NOT_FOUND_ERR) ELSE Wait(pc)

\* Entry.resolveInfo, the two continuations of its fs.stat
resolveInfo(fls, entry, st) ==
    IF st.err = "" THEN Resolve(getInfo(fls, entry, st.kind # "dir"))
    ELSE Reject(notFoundOrError(st.err))

ResolveLocalFileSystemURI ==
    /\ Idle
    /\ \E uri \in StatUrls :
         \E entry \in {getEntryForUrl(fileLocations, uri)} :
           Begin(Call("resolveLocalFileSystemURI", UriArgs(uri), "stat", entry, NullEntry),
                 entryChecks(entry, "stat"))
    /\ UNCHANGED <<arg, res, initialized, fileLocations, fs, detached>>
    /\ History

ResolveLocalFileSystemURIStat(i) ==
    /\ Waiting(i, "resolveLocalFileSystemURI", "stat")
    /\ LET c == calls[i]
       IN  \E st \in {Stat(fs, OSPath(c.entry))} :
             Advance(i, WithStat(c, st), resolveInfo(fileLocations, c.entry, st))
    /\ UNCHANGED <<arg, res, initialized, fileLocations, fs, detached>>
    /\ History

\* filePlugin.getParent: dst is entry.getParent(), the entry that is stat'ed
GetParent ==
    /\ Idle
    /\ \E uri \in StatUrls :
         \E entry \in {getEntryForUrl(fileLocations, uri)} :
           Begin(Call("getParent", UriArgs(uri), "stat", entry,
                      IF entry = NullEntry THEN NullEntry ELSE getParent(entry)),
                 entryChecks(entry, "stat"))
    /\ UNCHANGED <<arg, res, initialized, fileLocations, fs, detached>>
    /\ History

GetParentStat(i) ==
    /\ Waiting(i, "getParent", "stat")
    /\ LET c == calls[i]
       IN  \E st \in {Stat(fs, OSPath(c.dst))} :
             Advance(i, WithStat(c, st), resolveInfo(fileLocations, c.dst, st))
    /\ UNCHANGED <<arg, res, initialized, fileLocations, fs, detached>>
    /\ History

\* the stats a successful fs.stat delivers for the inode
Metadata(inode) == [modificationTime |-> inode.mtime, size |-> Len(inode.data)]

GetMetadata ==
    /\ Idle
    /\ \E uri \in StatUrls :
         \E entry \in {getEntryForUrl(fileLocations, uri)} :
           Begin(Call("getMetadata", UriArgs(uri), "stat", entry, NullEntry),
                 entryChecks(entry, "stat"))
    /\ UNCHANGED <<arg, res, initialized, fileLocations, fs, detached>>
    /\ History

GetMetadataStat(i) ==
    /\ Waiting(i, "getMetadata", "stat")
    /\ LET c == calls[i]
       IN  \E st \in {Stat(fs, OSPath(c.entry))} :
             Advance(i, WithStat(c, st),
                     IF st.err = "" THEN Resolve(Metadata(fs[st.node]))
                     ELSE Reject(notFoundOrError(st.err)))
    /\ UNCHANGED <<arg, res, initialized, fileLocations, fs, detached>>
    /\ History

\* the FileMetadata object; mime.getType knows no type for the names of the
\* model, which have no extension
FileMetadata(info, inode) ==
    [name |-> info.name, localURL |-> info.fullPath, nativeURL |-> info.nativeURL,
     type |-> "null", lastModified |-> inode.mtime, size |-> Len(inode.data)]

GetFileMetadata ==
    /\ Idle
    /\ \E uri \in StatUrls :
         \E entry \in {getEntryForUrl(fileLocations, uri)} :
           Begin(Call("getFileMetadata", UriArgs(uri), "stat", entry, NullEntry),
                 entryChecks(entry, "stat"))
    /\ UNCHANGED <<arg, res, initialized, fileLocations, fs, detached>>
    /\ History

GetFileMetadataStat(i) ==
    /\ Waiting(i, "getFileMetadata", "stat")
    /\ LET c == calls[i]
       IN  \E st \in {Stat(fs, OSPath(c.entry))} :
             Advance(i, WithStat(c, st),
                     IF st.err # "" THEN Reject(notFoundOrError(st.err))
                     ELSE IF st.kind = "dir" THEN Reject(TYPE_MISMATCH_ERR)
                     ELSE Resolve(FileMetadata(getInfo(fileLocations, c.entry, TRUE),
                                               fs[st.node])))
    /\ UNCHANGED <<arg, res, initialized, fileLocations, fs, detached>>
    /\ History

ReadEntries ==
    /\ Idle
    /\ \E uri \in StatUrls :
         \E entry \in {getEntryForUrl(fileLocations, uri)} :
           Begin(Call("readEntries", UriArgs(uri), "readdir", entry, NullEntry),
                 entryChecks(entry, "readdir"))
    /\ UNCHANGED <<arg, res, initialized, fileLocations, fs, detached>>
    /\ History

\* fs.readdir settles: the value is the array of the children's EntryInfo
\* (a set here: the order is the one of the directory)
ReadEntriesReaddir(i) ==
    /\ Waiting(i, "readEntries", "readdir")
    /\ LET c == calls[i]
       IN  \E rd \in {Readdir(fs, OSPath(c.entry))} :
             Advance(i, c,
                     IF rd.err # "" THEN Reject(notFoundOrError(rd.err))
                     ELSE Resolve([entries |->
                            { getInfo(fileLocations, getChild(c.entry, f.name), ~f.isDirectory) :
                              f \in rd.files }]))
    /\ UNCHANGED <<arg, res, initialized, fileLocations, fs, detached>>
    /\ History

-----------------------------------------------------------------------------
(* requestFileSystem, requestAllFileSystems *)

\* the catch clause of the dispatcher: the handler threw before it returned a
\* promise, callbackContext.error receives {message: action + ' failed', cause}
Caught(action) ==
    [pc |-> "done", outcome |-> "error", code |-> 0,
     value |-> [message |-> action \o " failed"]]

ROOT_NAME_PREFIX == <<"r","o","o","t",":">>

\* allFileSystems[fl.name], as the constructor of FileLocation stored it
FileSystemInfo(fl) ==
    [name |-> fl.name,
     root |-> createEntryInfo(FALSE, ROOT_NAME_PREFIX \o fl.name, <<PATH_SEP>>, fl)]

\* filePlugin.requestFileSystem([type]): FILE_LOCATION_TEMP and
\* FILE_LOCATION_DATA are undefined until plugin.initialize has constructed
\* them, and fl.name throws a TypeError then
requestFileSystem(fls, type) ==
    IF type < 0 \/ type > 1 THEN Caught("requestFileSystem")
    ELSE IF fls = <<>> THEN Caught("requestFileSystem")
    ELSE Resolve(FileSystemInfo(RootOf(fls, IF type = 0 THEN TempName ELSE DataName)))

RequestFileSystem ==
    /\ Idle
    /\ \E type \in RequestTypes :
         Begin(Call("requestFileSystem", Args(<<>>, <<>>, <<>>, FALSE, FALSE, <<>>, type),
                    "done", NullEntry, NullEntry),
               requestFileSystem(fileLocations, type))
    /\ UNCHANGED <<arg, res, initialized, fileLocations, fs, detached>>
    /\ History

\* filePlugin.requestAllFileSystems(): allFileSystems, one FileSystemInfo for
\* every FileLocation constructed so far
RequestAllFileSystems ==
    /\ Idle
    /\ Begin(Call("requestAllFileSystems", NoArgs, "done", NullEntry, NullEntry),
             Resolve([fileSystems |-> [i \in DOMAIN fileLocations |->
                                          FileSystemInfo(fileLocations[i])]]))
    /\ UNCHANGED <<arg, res, initialized, fileLocations, fs, detached>>
    /\ History

\* filePlugin.requestAllPaths(): allUrls, the url prefix of every
\* FileLocation constructed so far under the key name + "Directory"
RequestAllPaths ==
    /\ Idle
    /\ Begin(Call("requestAllPaths", NoArgs, "done", NullEntry, NullEntry),
             Resolve([urls |-> [i \in DOMAIN fileLocations |->
                                  [key |-> fileLocations[i].name
                                             \o <<"D","i","r","e","c","t","o","r","y">>,
                                   url |-> fileLocations[i].urlDef.prefix]]]))
    /\ UNCHANGED <<arg, res, initialized, fileLocations, fs, detached>>
    /\ History

-----------------------------------------------------------------------------
(* The entry operations over the file tree *)

Seg(ch) == <<ch>>

\* the file tree the host starts with: the application directory with a file
\* and a non-empty directory, and the user-data, temp and documents directories
InitFs ==
    LET dirs == { <<>>, <<Seg("p")>>, <<Seg("p"), Seg("b")>>,
                  <<Seg("u")>>, <<Seg("t")>>, <<Seg("d")>> }
        files == { <<Seg("p"), Seg("a")>>, <<Seg("p"), Seg("b"), Seg("a")>> }
    IN  [n \in dirs \cup files |-> IF n \in dirs THEN DirInode ELSE FileInode(<<104>>)]

Init ==
    /\ arg = <<>>
    /\ res = <<>>
    /\ initialized = FALSE
    /\ fileLocations = <<>>
    /\ fs = InitFs
    /\ calls = <<>>
    /\ detached = <<>>
    /\ last = NoCall
    /\ exclCreated = {}

Next ==
    \/ Initialize
    \/ \E i \in DOMAIN calls : InitializeReady(i)
    \/ Callback
    \/ GetFile
    \/ \E i \in DOMAIN calls : GetFileStat(i)
    \/ \E i \in DOMAIN calls : GetFileOpen(i)
    \/ \E i \in DOMAIN calls : GetFileClose(i)
    \/ GetDirectory
    \/ \E i \in DOMAIN calls : GetDirectoryStat(i)
    \/ \E i \in DOMAIN calls : GetDirectoryMkdir(i)
    \/ RemoveEntry
    \/ \E i \in DOMAIN calls : RemoveStat(i)
    \/ \E i \in DOMAIN calls : RemoveRm(i)
    \/ RemoveRecursively
    \/ \E i \in DOMAIN calls : RemoveRecursivelyStat(i)
    \/ \E i \in DOMAIN calls : RemoveRecursivelyRm(i)
    \/ CopyTo
    \/ \E i \in DOMAIN calls : CopyToStat(i)
    \/ \E i \in DOMAIN calls : CopyToCopy(i)
    \/ MoveTo
    \/ \E i \in DOMAIN calls : MoveToStat(i)
    \/ \E j \in DOMAIN detached : MoveSettles(j)
    \/ Write
    \/ \E i \in DOMAIN calls : WriteOpen(i)
    \/ \E i \in DOMAIN calls : WriteWrite(i)
    \/ \E i \in DOMAIN calls : WriteClose(i)
    \/ TruncateFile
    \/ \E i \in DOMAIN calls : TruncateSettles(i)
    \/ SetMetadata
    \/ \E i \in DOMAIN calls : SetMetadataSettles(i)
    \/ ReadAs
    \/ \E i \in DOMAIN calls : ReadAsOpen(i)
    \/ \E i \in DOMAIN calls : ReadAsRead(i)
    \/ \E i \in DOMAIN calls : ReadAsClose(i)
    \/ RequestFileSystem
    \/ ResolveLocalFileSystemURI
    \/ \E i \in DOMAIN calls : ResolveLocalFileSystemURIStat(i)
    \/ GetParent
    \/ \E i \in DOMAIN calls : GetParentStat(i)
    \/ GetMetadata
    \/ \E i \in DOMAIN calls : GetMetadataStat(i)
    \/ GetFileMetadata
    \/ \E i \in DOMAIN calls : GetFileMetadataStat(i)
    \/ ReadEntries
    \/ \E i \in DOMAIN calls : ReadEntriesReaddir(i)
    \/ RequestAllFileSystems
    \/ RequestAllPaths
Spec == Init /\ [][Next]_vars

-----------------------------------------------------------------------------
(* Specification of completion: the caller initializes the plugin, creates  *)
(* files and issues readAs and moveTo calls, and the event loop is fair.    *)

\* a callback of a call whose I/O has completed
Completion ==
    \E i \in DOMAIN calls :
       \/ InitializeReady(i)
       \/ GetFileStat(i) \/ GetFileOpen(i) \/ GetFileClose(i)
       \/ MoveToStat(i)
       \/ ReadAsOpen(i) \/ ReadAsRead(i) \/ ReadAsClose(i)

NextFair ==
    \/ Initialize
    \/ Callback
    \/ GetFile
    \/ MoveTo
    \/ ReadAs
    \/ Completion
    \/ \E j \in DOMAIN detached : MoveSettles(j)

\* the calls that wait for no I/O: the callback that would have started
\* their next I/O ended with an exception
NoIoOutstanding == \A i \in DOMAIN calls : calls[i].pc = "never"

\* the scheduling of the event loop, as weak fairness of its three kinds of
\* steps: every I/O that was started completes and its callback runs, every
\* settled promise is handed to the dispatcher's callbacks, every fs.move in
\* flight settles.  For the I/O callbacks and for fs.move the condition
\* WF_vars(A), that is []<>~ENABLED <<A>>_vars \/ []<><<A>>_vars, is written
\* with the enabling condition of the action spelled out
SpecFair ==
    /\ Init /\ [][NextFair]_vars
    /\ ([]<>NoIoOutstanding \/ []<><<Completion>>_vars)
    /\ WF_vars(Callback)
    /\ ([]<>(detached = <<>>) \/ []<><<\E j \in DOMAIN detached : MoveSettles(j)>>_vars)

-----------------------------------------------------------------------------
(* Specification of write: the plugin is initialized, the data directory   *)
(* holds files with content, and the caller writes at the offsets of       *)
(* WriteOffsets with the write of either implementation variant: the one   *)
(* of src/src/electron/index.js, which opens the file with flag 'w', and   *)
(* the one of src/unnamed/part_000, which translates the url with          *)
(* toNativePath and opens the file with flag 'a'.  arg records the file    *)
(* the url named when the write was issued, and what it held.              *)

CachePath == <<"/","c">>

\* cdvPathsPrefix and nativePathsPrefix, in the order toNativePath tries them
NativePrefixes ==
    LET prefix(name, dir) ==
            [cdv |-> CDV_PREFIX \o name \o <<"/">>, native |-> dir \o <<PATH_SEP>>]
    IN  << prefix(ApplicationName, <<"/">>),
           prefix(DataName, UserDataPath),
           prefix(<<"c","a","c","h","e">>, CachePath),
           prefix(TempName, TempPath),
           prefix(DocumentsName, DocumentsPath) >>

\* toNativePath(cdvUrl); the empty string stands for null
toNativePath(cdvUrl) ==
    IF cdvUrl = <<>> THEN <<>>
    ELSE IF Contains(cdvUrl, DotDot) THEN <<>>
    ELSE LET hits == SelectSeq(NativePrefixes, LAMBDA d : StartsWith(cdvUrl, d.cdv))
         IN  IF hits = <<>> THEN <<>>
             ELSE Head(hits).native \o Drop(cdvUrl, Len(Head(hits).cdv))

\* fs.open(p, 'a'): creates the file when it is missing, keeps what it holds
OpenA(f, p) ==
    LET found(l) ==
            IF l.err # "" THEN [err |-> l.err, node |-> l.node, fs |-> f]
            ELSE IF IsDir(f, l.node) \/ l.slash
            THEN [err |-> "EISDIR", node |-> l.node, fs |-> f]
            ELSE [err |-> "", node |-> l.node,
                  fs |-> IF Exists(f, l.node) THEN f ELSE Put(f, l.node, FileInode(<<>>))]
    IN  found(Lookup(f, p))

\* fs.write(fd, buf, 0, buf.length, position) on a descriptor opened with
\* flag 'a': the platform decides whether position is honoured or the bytes
\* go to the end of the file
WriteAppend(f, n, buf, position) ==
    { WriteAt(f, n, buf, Len(f[n].data)), WriteAt(f, n, buf, position) }

\* the bound on the length of a file
MaxFileLen == 4

WriteOffsets == {0, 1}

CdvFileNames ==
    { CDV_PREFIX \o DataName \o <<"/","b">>,
      CDV_PREFIX \o DataName \o <<"/">> \o DotDot \o <<"/","b">>,
      CDV_PREFIX \o NoSuchRoot \o <<"/","a">> }

\* the file an OS path names, and what it holds
Holding(f, p) ==
    LET at(n) == IF p # <<>> /\ IsFile(f, n)
                 THEN [existed |-> TRUE, node |-> n, data |-> f[n].data]
                 ELSE [existed |-> FALSE, node |-> <<>>, data |-> <<>>]
    IN  at(pathResolve(p))

\* write of index.js is called
WriteW ==
    /\ Idle
    /\ \E uri \in FileUrls, data \in WriteData, position \in WriteOffsets :
         /\ writeBegin(uri, data, position)
         /\ \E entry \in {getEntryForUrl(fileLocations, uri)} :
              arg' = Holding(fs, IF entry = NullEntry THEN <<>> ELSE OSPath(entry))
    /\ UNCHANGED <<res, initialized, fileLocations, fs, detached>>
    /\ History

\* write of the second variant, up to its fs.open
writeAChecks(nativeFileName, data) ==
    IF nativeFileName = <<>> THEN Reject(NOT_FOUND_ERR)
    ELSE IF data = <<>> THEN Reject(INVALID_MODIFICATION_ERR)
    ELSE Wait("open")

\* write of the second variant is called
WriteA ==
    /\ Idle
    /\ \E cdvFileName \in CdvFileNames, data \in WriteData, position \in WriteOffsets :
         \E held \in {Holding(fs, toNativePath(cdvFileName))} :
           /\ Len(held.data) + Len(data) <= MaxFileLen
           /\ Begin(Call("writeA", Args(cdvFileName, <<>>, <<>>, FALSE, FALSE, data, position),
                         "open", NullEntry, NullEntry),
                    writeAChecks(toNativePath(cdvFileName), data))
           /\ arg' = held
    /\ UNCHANGED <<res, initialized, fileLocations, fs, detached>>
    /\ History

WriteAOpen(i) ==
    /\ Waiting(i, "writeA", "open")
    /\ LET c == calls[i]
       IN  \E o \in {OpenA(fs, toNativePath(c.args.uri))} :
             /\ fs' = o.fs
             /\ IF o.err # "" THEN Advance(i, c, Reject(INVALID_MODIFICATION_ERR))
                ELSE Advance(i, [c EXCEPT !.fd = [open |-> TRUE, node |-> o.node]], Wait("write"))
    /\ UNCHANGED <<arg, res, initialized, fileLocations, detached>>
    /\ History

WriteAWrite(i) ==
    /\ Waiting(i, "writeA", "write")
    /\ LET c == calls[i]
       IN  /\ fs' \in IF IsFile(fs, c.fd.node)
                      THEN WriteAppend(fs, c.fd.node, c.args.data, c.args.num) ELSE {fs}
           /\ Advance(i, c, Wait("close"))
    /\ UNCHANGED <<arg, res, initialized, fileLocations, detached>>
    /\ History

\* bw.bytesWritten is the length of the buffer
WriteAClose(i) ==
    /\ Waiting(i, "writeA", "close")
    /\ LET c == calls[i]
       IN  Advance(i, [c EXCEPT !.fd = NoFd], Resolve(Number(Len(c.args.data))))
    /\ UNCHANGED <<arg, res, initialized, fileLocations, fs, detached>>
    /\ History

\* the files the writes go to, each holding two bytes
WriteFs(fls) ==
    LET tree == InitLocations(InitFs, fls).fs
        files == { pathResolve(getOSPath(fls, getEntryForUrl(fls, Url(DataName, <<"/","b">>)))),
                   pathResolve(toNativePath(CDV_PREFIX \o DataName \o <<"/","b">>)) }
    IN  [n \in DOMAIN tree \cup files |->
            IF n \in files THEN FileInode(<<104, 105>>) ELSE tree[n]]

InitWrite ==
    /\ arg = Holding(<<>>, <<>>)
    /\ res = <<>>
    /\ initialized = TRUE
    /\ \E ctx \in GoodContexts : fileLocations = Roots(ctx) /\ fs = WriteFs(Roots(ctx))
    /\ calls = <<>>
    /\ detached = <<>>
    /\ last = NoCall
    /\ exclCreated = {}

NextWrite ==
    \/ WriteW
    \/ \E i \in DOMAIN calls : WriteOpen(i)
    \/ \E i \in DOMAIN calls : WriteWrite(i)
    \/ \E i \in DOMAIN calls : WriteClose(i)
    \/ WriteA
    \/ \E i \in DOMAIN calls : WriteAOpen(i)
    \/ \E i \in DOMAIN calls : WriteAWrite(i)
    \/ \E i \in DOMAIN calls : WriteAClose(i)
    \/ Callback

SpecWrite == InitWrite /\ [][NextWrite]_vars

-----------------------------------------------------------------------------
(* Specification of calls in flight together: the plugin is initialized    *)
(* and the caller issues getFile, getDirectory and remove calls without    *)
(* waiting for the answers of the calls before, up to MaxCalls at a time.  *)
(* The callbacks of their I/O run in any order; a settled promise is       *)
(* handed to the dispatcher's callbacks before the next I/O callback runs. *)

\* the bound on the calls in flight at once
MaxCalls == 2

RaceParentUrls == { Url(DataName, <<"/">>), Url(DataName, <<"/","a","/">>) }

RaceNames == { <<"a">> }

\* a handler can be called: no settled promise waits for its callbacks
CanCall == Len(calls) < MaxCalls /\ last = NoCall

GetFileInFlight ==
    /\ CanCall
    /\ \E parentUri \in RaceParentUrls, fileName \in RaceNames, exclusive \in BOOLEAN :
         \E parentEntry \in {getEntryForUrl(fileLocations, parentUri)} :
           Begin(Call("getFile", Args(parentUri, <<>>, fileName, TRUE, exclusive, <<>>, 0),
                      "stat", DstEntry(parentEntry, fileName), NullEntry),
                 getFileChecks(parentEntry))
    /\ UNCHANGED <<arg, res, initialized, fileLocations, fs, detached>>
    /\ History

GetDirectoryInFlight ==
    /\ CanCall
    /\ \E parentUri \in RaceParentUrls, dirName \in RaceNames, exclusive \in BOOLEAN :
         \E parentEntry \in {getEntryForUrl(fileLocations, parentUri)} :
           Begin(Call("getDirectory", Args(parentUri, <<>>, dirName, TRUE, exclusive, <<>>, 0),
                      "stat", DstEntry(parentEntry, dirName), NullEntry),
                 getDirectoryChecks(parentEntry))
    /\ UNCHANGED <<arg, res, initialized, fileLocations, fs, detached>>
    /\ History

RemoveInFlight ==
    /\ CanCall
    /\ \E uri \in {Url(DataName, <<"/","a">>)} :
         \E entry \in {getEntryForUrl(fileLocations, uri)} :
           Begin(Call("remove", Args(uri, <<>>, <<>>, FALSE, FALSE, <<>>, 0),
                      "stat", entry, NullEntry),
                 resolveModifiable(entry, EntryModifiable(entry), "stat"))
    /\ UNCHANGED <<arg, res, initialized, fileLocations, fs, detached>>
    /\ History

\* the callback of an I/O that has completed
IoCallback ==
    /\ last = NoCall
    /\ \E i \in DOMAIN calls :
          \/ GetFileStat(i) \/ GetFileOpen(i) \/ GetFileClose(i)
          \/ GetDirectoryStat(i) \/ GetDirectoryMkdir(i)
          \/ RemoveStat(i) \/ RemoveRm(i)

InitRace ==
    /\ arg = <<>>
    /\ res = <<>>
    /\ initialized = TRUE
    /\ \E ctx \in GoodContexts :
         fileLocations = Roots(ctx) /\ fs = InitLocations(InitFs, Roots(ctx)).fs
    /\ calls = <<>>
    /\ detached = <<>>
    /\ last = NoCall
    /\ exclCreated = {}

NextRace ==
    \/ GetFileInFlight
    \/ GetDirectoryInFlight
    \/ RemoveInFlight
    \/ IoCallback
    \/ Callback

SpecRace == InitRace /\ [][NextRace]_vars

-----------------------------------------------------------------------------
(* Specification of the operations on a root itself: the caller            *)
(* initializes the plugin and calls remove, removeRecursively and moveTo   *)
(* with the url of a root (fullPath `/`).                                  *)

RootUrls ==
    { Url(DataName, <<"/">>), Url(DocumentsName, <<"/">>), Url(ApplicationName, <<"/">>) }

RemoveRoot ==
    /\ Idle
    /\ \E uri \in RootUrls :
         \E entry \in {getEntryForUrl(fileLocations, uri)} :
           Begin(Call("remove", Args(uri, <<>>, <<>>, FALSE, FALSE, <<>>, 0),
                      "stat", entry, NullEntry),
                 resolveModifiable(entry, EntryModifiable(entry), "stat"))
    /\ UNCHANGED <<arg, res, initialized, fileLocations, fs, detached>>
    /\ History

RemoveRecursivelyRoot ==
    /\ Idle
    /\ \E uri \in RootUrls :
         \E entry \in {getEntryForUrl(fileLocations, uri)} :
           Begin(Call("removeRecursively", Args(uri, <<>>, <<>>, FALSE, FALSE, <<>>, 0),
                      "stat", entry, NullEntry),
                 resolveModifiable(entry, EntryModifiable(entry), "stat"))
    /\ UNCHANGED <<arg, res, initialized, fileLocations, fs, detached>>
    /\ History

MoveRoot ==
    /\ Idle
    /\ Len(detached) < MaxDetached
    /\ \E srcUri \in {Url(DataName, <<"/">>)}, dstParentUri \in RootUrls, dstName \in Names :
         \E srcEntry \in {getEntryForUrl(fileLocations, srcUri)},
            dstParentEntry \in {getEntryForUrl(fileLocations, dstParentUri)} :
           Begin(Call("moveTo", Args(srcUri, dstParentUri, dstName, FALSE, FALSE, <<>>, 0),
                      "stat", srcEntry, DstEntry(dstParentEntry, dstName)),
                 moveToChecks(srcEntry, dstParentEntry, DstEntry(dstParentEntry, dstName)))
    /\ UNCHANGED <<arg, res, initialized, fileLocations, fs, detached>>
    /\ History

NextRoot ==
    \/ Initialize
    \/ \E i \in DOMAIN calls : InitializeReady(i)
    \/ Callback
    \/ RemoveRoot
    \/ \E i \in DOMAIN calls : RemoveStat(i)
    \/ \E i \in DOMAIN calls : RemoveRm(i)
    \/ RemoveRecursivelyRoot
    \/ \E i \in DOMAIN calls : RemoveRecursivelyStat(i)
    \/ \E i \in DOMAIN calls : RemoveRecursivelyRm(i)
    \/ MoveRoot
    \/ \E i \in DOMAIN calls : MoveToStat(i)
    \/ \E j \in DOMAIN detached : MoveSettles(j)

SpecRoot == Init /\ [][NextRoot]_vars

-----------------------------------------------------------------------------
(* Specification of sanitizePath as a pure function: the input ranges over *)
(* every concatenation of at most MaxTok tokens, the actions apply         *)
(* sanitizePath to the input and then to its own output.                   *)

MaxTok == 8

PathTokens == { <<"/">>, DotDot, <<"a">>, <<"b">> }

PathInputs(max) == UNION { { Flatten(ts) : ts \in [1..n -> PathTokens] } : n \in 0..max }


InitRest ==
    /\ initialized = FALSE
    /\ fileLocations = <<>>
    /\ fs = <<>>
    /\ calls = <<>>
    /\ detached = <<>>
    /\ last = NoCall
    /\ exclCreated = {}

InitPath ==
    /\ arg \in PathInputs(MaxTok)
    /\ res = <<>>
    /\ InitRest

Sanitize ==
    /\ res = <<>>
    /\ res' = <<sanitizePath(arg)>>
    /\ UNCHANGED <<arg, initialized, fileLocations, fs, calls, detached, last, exclCreated>>

SanitizeAgain ==
    /\ Len(res) = 1
    /\ res' = Append(res, sanitizePath(res[1]))
    /\ UNCHANGED <<arg, initialized, fileLocations, fs, calls, detached, last, exclCreated>>

NextPath == Sanitize \/ SanitizeAgain

SpecPath == InitPath /\ [][NextPath]_vars

-----------------------------------------------------------------------------
(* Specification of Entry.getParent and Entry.getChild as pure functions:  *)
(* the registry holds the four roots of a successful plugin.initialize,    *)
(* the input is an Entry of a root whose fullPath is the result of         *)
(* sanitizePath on a concatenation of at most MaxEntryTok tokens, and a    *)
(* name; the actions apply getParent, getChild, and getParent to the       *)
(* child.                                                                  *)

MaxEntryTok == 4

PlainNames == { <<"a">>, <<"b">>, <<".">> }

InitEntry ==
    /\ \E ctx \in GoodContexts : fileLocations = Roots(ctx)
    /\ \E root \in {DataName, ApplicationName}, p \in PathInputs(MaxEntryTok), n \in PlainNames :
         arg = [entry |-> Entry(root, sanitizePath(p)), name |-> n]
    /\ res = <<>>
    /\ initialized = TRUE
    /\ fs = <<>>
    /\ calls = <<>>
    /\ detached = <<>>
    /\ last = NoCall
    /\ exclCreated = {}

EntryGetParent ==
    /\ res = <<>>
    /\ res' = <<[op |-> "getParent", entry |-> getParent(arg.entry)]>>
    /\ UNCHANGED <<arg, initialized, fileLocations, fs, calls, detached, last, exclCreated>>

EntryGetChild ==
    /\ res = <<>>
    /\ res' = <<[op |-> "getChild", entry |-> getChild(arg.entry, arg.name)]>>
    /\ UNCHANGED <<arg, initialized, fileLocations, fs, calls, detached, last, exclCreated>>

ChildGetParent ==
    /\ Len(res) = 1
    /\ res[1].op = "getChild"
    /\ res' = Append(res, [op |-> "getParent", entry |-> getParent(res[1].entry)])
    /\ UNCHANGED <<arg, initialized, fileLocations, fs, calls, detached, last, exclCreated>>

NextEntry == EntryGetParent \/ EntryGetChild \/ ChildGetParent

SpecEntry == InitEntry /\ [][NextEntry]_vars

-----------------------------------------------------------------------------
(* Specification of URL resolution: the registry holds the four roots of a *)
(* successful plugin.initialize; the input is the base of one url          *)
(* definition of one root followed by a path of at most MaxUrlTok tokens;  *)
(* the action resolves that URL with getEntryForUrl.                       *)

MaxUrlTok == 5

UrlTokens == { <<"/">>, DotDot, <<"a">>, <<"%","2","0">> }

UrlPathInputs(max) == UNION { { Flatten(ts) : ts \in [1..n -> UrlTokens] } : n \in 0..max }

InitUrl ==
    /\ \E ctx \in GoodContexts :
        /\ fileLocations = Roots(ctx)
        /\ \E r \in 1..Len(fileLocations) : \E d \in 1..Len(fileLocations[r].urlDefs) :
             \E p \in UrlPathInputs(MaxUrlTok) :
                arg = [root |-> fileLocations[r].name,
                       def |-> fileLocations[r].urlDefs[d],
                       path |-> p]
    /\ res = <<>>
    /\ initialized = TRUE
    /\ fs = <<>>
    /\ calls = <<>>
    /\ detached = <<>>
    /\ last = NoCall
    /\ exclCreated = {}

ResolveUrl ==
    /\ res = <<>>
    /\ LET url == arg.def.base \o arg.path
           e == getEntryForUrl(fileLocations, url)
       IN  res' = <<[url |-> url,
                     entry |-> e,
                     osPath |-> IF e = NullEntry THEN <<>> ELSE getOSPath(fileLocations, e)]>>
    /\ UNCHANGED <<arg, initialized, fileLocations, fs, calls, detached, last, exclCreated>>

NextUrl == ResolveUrl

SpecUrl == InitUrl /\ [][NextUrl]_vars

-----------------------------------------------------------------------------
(* Specification of scheme matching: the registry holds the four roots of  *)
(* a successful plugin.initialize; the input is a URL made of the base of  *)
(* one url definition of one root and a path of at most MaxCaseTok tokens, *)
(* and a set of positions of its scheme; the action resolves the URL as it *)
(* is and with the letters at those positions in upper case.               *)

MaxCaseTok == 2

UpperOf == [c \in {LowerChars[i] : i \in 1..Len(LowerChars)} |->
              UpperChars[CHOOSE i \in 1..Len(LowerChars) : LowerChars[i] = c]]

ToUpperChar(c) == IF c \in DOMAIN UpperOf THEN UpperOf[c] ELSE c

\* url with the characters at the positions of mask in upper case
UpperAt(url, mask) == [k \in 1..Len(url) |-> IF k \in mask THEN ToUpperChar(url[k]) ELSE url[k]]

InitCase ==
    /\ \E ctx \in GoodContexts :
        /\ fileLocations = Roots(ctx)
        /\ \E r \in 1..Len(fileLocations) : \E d \in 1..Len(fileLocations[r].urlDefs) :
             \E p \in UrlPathInputs(MaxCaseTok) :
               \E mask \in SUBSET (1..Len(fileLocations[r].urlDefs[d].scheme)) :
                 arg = [root |-> fileLocations[r].name,
                        def |-> fileLocations[r].urlDefs[d],
                        path |-> p,
                        mask |-> mask]
    /\ res = <<>>
    /\ initialized = TRUE
    /\ fs = <<>>
    /\ calls = <<>>
    /\ detached = <<>>
    /\ last = NoCall
    /\ exclCreated = {}

ResolveCase ==
    /\ res = <<>>
    /\ \E url \in {arg.def.base \o arg.path} :
         res' = <<[url |-> url, entry |-> getEntryForUrl(fileLocations, url)],
                  [url |-> UpperAt(url, arg.mask),
                   entry |-> getEntryForUrl(fileLocations, UpperAt(url, arg.mask))]>>
    /\ UNCHANGED <<arg, initialized, fileLocations, fs, calls, detached, last, exclCreated>>

NextCase == ResolveCase

SpecCase == InitCase /\ [][NextCase]_vars

-----------------------------------------------------------------------------
(* Specification of the constructors FileUrlDef and FileOSDef as pure      *)
(* functions: the input is a base string of at most MaxBaseTok tokens, the *)
(* actions construct the url definition and the OS path definition of it.  *)

MaxBaseTok == 4

BaseTokens == { <<"/">>, <<"a">>, <<":">> }

BaseInputs(max) == UNION { { Flatten(ts) : ts \in [1..n -> BaseTokens] } : n \in 0..max }

InitDef ==
    /\ \E b \in BaseInputs(MaxBaseTok), skip \in BOOLEAN :
         arg = [base |-> b, skipNativeUrl |-> skip]
    /\ res = <<>>
    /\ initialized = FALSE
    /\ fileLocations = <<>>
    /\ fs = <<>>
    /\ calls = <<>>
    /\ detached = <<>>
    /\ last = NoCall
    /\ exclCreated = {}

NewFileUrlDef ==
    /\ res = <<>>
    /\ res' = <<[class |-> "FileUrlDef",
                 def |-> FileUrlDef(FILE_SCHEME, arg.base, arg.skipNativeUrl)]>>
    /\ UNCHANGED <<arg, initialized, fileLocations, fs, calls, detached, last, exclCreated>>

NewFileOSDef ==
    /\ res = <<>>
    /\ res' = <<[class |-> "FileOSDef", def |-> FileOSDef(arg.base)]>>
    /\ UNCHANGED <<arg, initialized, fileLocations, fs, calls, detached, last, exclCreated>>

NextDef == NewFileUrlDef \/ NewFileOSDef

SpecDef == InitDef /\ [][NextDef]_vars

-----------------------------------------------------------------------------
(* Claims about path sanitization and URL resolution *)

\* C1: every URL that getEntryForUrl resolves to an Entry yields an OS path
\* that, once its `..` segments are resolved, is the owning root's osBasePath
\* or lies beneath it.
C1_ResolvedPathStaysInRoot ==
    (res # <<>> /\ res[1].entry # NullEntry)
        => IsBeneath(pathResolve(res[1].osPath),
                     pathResolve(RootOf(fileLocations, res[1].entry.root).osPathDef.base))

\* C2: the output of sanitizePath contains no `..` segment, and
\* sanitizePath("/a/../../b") is "/b".
C2_NoDotDotInOutput ==
    Len(res) >= 1 =>
        /\ \A i \in 1..Len(SLASH_SPLIT(res[1])) : SLASH_SPLIT(res[1])[i] # DotDot
        /\ (arg = <<"/","a","/",".",".","/",".",".","/","b">> => res[1] = <<"/","b">>)

\* C3: sanitizePath is idempotent: sanitizePath(sanitizePath(p)) = sanitizePath(p).
C3_SanitizeIdempotent == Len(res) = 2 => res[2] = res[1]

\* C4: for a root, a url definition of it that builds URLs and a sanitized
\* virtual path p starting with "/", resolving base + p yields an Entry of the
\* same root whose fullPath is p.
C4_UrlRoundTrip ==
    (/\ res # <<>>
     /\ ~arg.def.skipNativeUrl
     /\ StartsWith(arg.path, <<PATH_SEP>>)
     /\ sanitizePath(arg.path) = arg.path)
        => (/\ res[1].url = buildNativeURL(arg.def, arg.path)
            /\ res[1].entry.root = arg.root
            /\ res[1].entry.fullPath = arg.path)

-----------------------------------------------------------------------------
(* Properties of the entry operations *)

\* a promise was settled in this step
Settles == last' # last /\ last' # NoCall

IsMutating(l) ==
    \/ l.op \in {"write", "remove", "removeRecursively", "truncate", "setMetadata"}
    \/ l.op \in {"getFile", "getDirectory"} /\ l.args.create
    \/ l.op \in {"copyTo", "moveTo"}

\* the entry a mutating operation would change (for copyTo and moveTo, whose
\* source resolves, the destination)
TargetOf(l) ==
    IF l.op \in {"copyTo", "moveTo"}
    THEN (IF l.entry = NullEntry THEN NullEntry ELSE l.dst)
    ELSE l.entry

ReadOnlyTarget(l) == TargetOf(l) # NullEntry /\ ~Modifiable(TargetOf(l))

\* C5: every mutating operation whose url resolves into a non-modifiable root
\* fails with INVALID_MODIFICATION_ERR and leaves the file tree unchanged,
\* whether the target exists or not, whatever its kind, the exclusive flag and
\* the other arguments
C5_ReadOnlyRootEnforced ==
    [][ (Settles /\ IsMutating(last') /\ ReadOnlyTarget(last'))
            => (/\ last'.outcome = "error"
                /\ last'.code = INVALID_MODIFICATION_ERR
                /\ fs' = fs) ]_vars

\* the node of the file tree an entry names
NodeOf(entry) == pathResolve(OSPath(entry))

ExclusiveCreate(c) ==
    /\ c.op \in {"getFile", "getDirectory"}
    /\ c.args.create /\ c.args.exclusive
    /\ c.entry # NullEntry
    /\ Modifiable(c.entry)

\* C6: in a writable root, while a path created by a successful getFile with
\* create and exclusive exists, the stat callback of every later getFile or
\* getDirectory with create and exclusive on that path rejects with
\* PATH_EXISTS_ERR and changes nothing in the file tree
C6_ExclusiveCreateTwiceFails ==
    [][ \A i \in DOMAIN calls :
          (/\ ExclusiveCreate(calls[i])
           /\ calls[i].pc = "stat"
           /\ NodeOf(calls[i].entry) \in exclCreated
           /\ calls' # calls)
              => (/\ calls' = <<>>
                  /\ last'.op = calls[i].op
                  /\ last'.outcome = "error"
                  /\ last'.code = PATH_EXISTS_ERR
                  /\ fs' = fs) ]_vars

C6_Witness ==
    /\ ExclusiveCreate(last)
    /\ last.op = "getDirectory"
    /\ last.outcome = "error"
    /\ last.code = PATH_EXISTS_ERR
    /\ NodeOf(last.entry) \in exclCreated

\* the decision table of getFile and getDirectory, as the outcome it names
DecisionTable(op, create, exclusive, exists, kind) ==
    LET sameKind == (op = "getFile" /\ kind = "file") \/ (op = "getDirectory" /\ kind = "dir")
    IN  IF exists /\ create /\ exclusive THEN "PATH_EXISTS_ERR"
        ELSE IF ~exists /\ create THEN "created"
        ELSE IF exists /\ create THEN (IF sameKind THEN "success" ELSE "INVALID_MODIFICATION_ERR")
        ELSE IF ~exists THEN "NOT_FOUND_ERR"
        ELSE IF ~sameKind THEN "TYPE_MISMATCH_ERR"
        ELSE "success"

TableCode(row) ==
    CASE row = "PATH_EXISTS_ERR" -> PATH_EXISTS_ERR
      [] row = "INVALID_MODIFICATION_ERR" -> INVALID_MODIFICATION_ERR
      [] row = "NOT_FOUND_ERR" -> NOT_FOUND_ERR
      [] row = "TYPE_MISMATCH_ERR" -> TYPE_MISMATCH_ERR
      [] OTHER -> 0

\* a settled getFile or getDirectory in a writable root whose stat succeeded
\* or found nothing
TableApplies(l) ==
    /\ l.op \in {"getFile", "getDirectory"}
    /\ l.entry # NullEntry
    /\ Modifiable(l.entry)
    /\ l.statErr \in {"", "ENOENT"}

TableRow(l) == DecisionTable(l.op, l.args.create, l.args.exclusive, l.statErr = "", l.stats)

Succeeded(l) ==
    /\ l.outcome = "success"
    /\ l.value = getInfo(fileLocations, l.entry, l.op = "getFile")

Failed(l, code) == l.outcome = "error" /\ l.code = code

Creates(l) ==
    \/ TableRow(l) = "created"
    \/ TableRow(l) = "success" /\ l.op = "getFile" /\ l.args.create

CreationFailure(op) == IF op = "getFile" THEN INVALID_STATE_ERR ELSE PATH_EXISTS_ERR

\* the open of getFile or the mkdir of getDirectory can succeed on the tree f
CanCreate(f, op, node) ==
    /\ IsDir(f, ParentNode(node))
    /\ IF op = "getFile" THEN ~IsDir(f, node) ELSE ~Exists(f, node)

NonEmptyDirectory(f, node) == IsDir(f, node) /\ Children(f, node) # {}

\* C8: in a writable root, the stat callback of remove on a directory with a
\* child rejects with INVALID_MODIFICATION_ERR and leaves the tree as it is;
\* removeRecursively on it goes on to remove it, and its removal succeeds and
\* leaves neither the directory nor anything beneath it
C8_NonEmptyDirectoryRemoval ==
    [][ \A i \in DOMAIN calls :
          LET c == calls[i]
              node == NodeOf(c.entry)
          IN  /\ (/\ c.op \in {"remove", "removeRecursively"}
                  /\ c.pc = "stat"
                  /\ calls' # calls
                  /\ NonEmptyDirectory(fs, node))
                    => /\ fs' = fs
                       /\ IF c.op = "remove"
                          THEN calls' = <<>> /\ Failed(last', INVALID_MODIFICATION_ERR)
                          ELSE calls'[i].pc = "rm" /\ last' = last
              /\ (c.op = "removeRecursively" /\ c.pc = "rm" /\ calls' # calls)
                    => /\ last'.outcome = "success"
                       /\ \A n \in DOMAIN fs' : ~IsBeneath(n, node)
                       /\ Stat(fs', OSPath(c.entry)).err = "ENOENT" ]_vars

C8_Witness ==
    /\ last.op = "remove"
    /\ Failed(last, INVALID_MODIFICATION_ERR)
    /\ last.stats = "dir"
    /\ NonEmptyDirectory(fs, NodeOf(last.entry))

\* source and destination parent resolve, and the destination is the source
SelfConflict(entry, dst) ==
    /\ entry # NullEntry
    /\ dst # NullEntry
    /\ NodeOf(entry) = NodeOf(dst)

\* C9: copyTo and moveTo whose source and destination resolve to the same OS
\* path are rejected with INVALID_MODIFICATION_ERR by the handler itself: no
\* I/O is started for them and the file tree does not change
C9_SelfConflictRejected ==
    [][ /\ (Settles /\ last'.op \in {"copyTo", "moveTo"} /\ SelfConflict(last'.entry, last'.dst))
              => (Failed(last', INVALID_MODIFICATION_ERR) /\ fs' = fs /\ calls = <<>>)
        /\ \A i \in DOMAIN calls' :
              calls'[i].op \in {"copyTo", "moveTo"}
                 => ~SelfConflict(calls'[i].entry, calls'[i].dst) ]_vars

C9_Witness ==
    /\ last.op = "moveTo"
    /\ SelfConflict(last.entry, last.dst)
    /\ Modifiable(last.entry)
    /\ Exists(fs, NodeOf(last.entry))
    /\ Failed(last, INVALID_MODIFICATION_ERR)

\* C10: the success value of copyTo and of moveTo is the EntryInfo of the
\* destination, of the kind of the source, and never undefined
C10_SuccessValueIsDestination ==
    (last.op \in {"copyTo", "moveTo"} /\ last.outcome = "success")
        => (/\ last.value # Undefined
            /\ last.value = getInfo(fileLocations, last.dst, last.stats # "dir"))

-----------------------------------------------------------------------------
(* Properties of reading *)

\* the readAs call whose fs.read settles in this step
ReadSettles ==
    /\ calls # <<>> /\ calls[1].op = "readAs" /\ calls[1].pc = "read"
    /\ last' # last

\* the bytes D[start..end) of the byte sequence D
ByteRange(D, start, end) == SubSeq(D, start + 1, end)

\* C11: when the file read holds the byte sequence D (as write(url, D, 0)
\* leaves it) and 0 <= start <= end <= length(D), readAsArrayBuffer(url,
\* start, end) succeeds with exactly the bytes D[start..end) and readAsText
\* with their decoding.
C11_ByteRangeReadAfterWrite ==
    [][ (/\ ReadSettles
         /\ IsFile(fs, calls[1].fd.node)
         /\ 0 <= calls[1].args.num
         /\ calls[1].args.num <= calls[1].args.endPos
         /\ calls[1].args.endPos <= Len(fs[calls[1].fd.node].data))
        => (/\ last'.op = "readAs"
            /\ last'.outcome = "success"
            /\ (last'.args.outputFormat = "arrayBuffer"
                  => last'.value =
                       [bytes |-> ByteRange(fs[calls[1].fd.node].data,
                                            calls[1].args.num, calls[1].args.endPos)])
            /\ (last'.args.outputFormat = "text"
                  => last'.value =
                       [text |-> toText(ByteRange(fs[calls[1].fd.node].data,
                                                  calls[1].args.num, calls[1].args.endPos))])) ]_vars

\* a read of the second byte of the two bytes a write left in the file
C11_Witness ==
    /\ last.op = "readAs" /\ last.outcome = "success"
    /\ last.args.outputFormat = "arrayBuffer"
    /\ last.args.num = 1 /\ last.args.endPos = 2
    /\ last.value = [bytes |-> <<105>>]
    /\ calls # <<>> /\ IsFile(fs, calls[1].fd.node)
    /\ fs[calls[1].fd.node].data = <<104, 105>>

-----------------------------------------------------------------------------
(* Properties of the error values *)

FileErrorCodes == NOT_FOUND_ERR..PATH_EXISTS_ERR

\* the settled promise p belongs to an operation of the call surface
\* (plugin.initialize is called by the host, not through the dispatcher)
OfCallSurface(p) == p.op \notin {"none", "initialize"}

\* C12: every operation of the call surface ends in success with a value or
\* in failure with one of the twelve numeric FileError codes; no operation
\* delivers a message object or another non-numeric error
C12_ClosedNumericTaxonomy ==
    OfCallSurface(last)
        => \/ last.outcome = "success"
           \/ /\ last.outcome = "error"
              /\ last.code \in FileErrorCodes
              /\ last.value = Undefined

-----------------------------------------------------------------------------
(* Properties of the file descriptors *)

\* no I/O is outstanding: no callback of any call is left to run
Quiescent == detached = <<>> /\ \A i \in DOMAIN calls : calls[i].pc = "never"

OpenDescriptors == { i \in DOMAIN calls : calls[i].fd.open }

\* C13: file descriptors never leak: in every quiescent state no descriptor
\* opened by readAs, write or the file creation of getFile is still open
C13_NoDescriptorLeak == Quiescent => OpenDescriptors = {}

-----------------------------------------------------------------------------
(* Properties of the translation of operating-system errors *)

\* the system call the i-th call waits for fails with the error err
SystemCallFails(i, err) ==
    LET c == calls[i]
    IN  \/ /\ c.op \in {"getFile", "write"} /\ c.pc = "open"
           /\ OpenW(fs, OSPath(c.entry)).err = err
        \/ /\ c.op = "getDirectory" /\ c.pc = "mkdir"
           /\ Mkdir(fs, OSPath(c.entry)).err = err
        \/ /\ c.op = "readAs" /\ c.pc = "open"
           /\ OpenR(fs, OSPath(c.entry)).err = err

\* C14: an ENOENT raised by the open of getFile, the mkdir of getDirectory or
\* the open of write or readAs (the parent directory does not exist) is
\* reported as NOT_FOUND_ERR
C14_NotFoundAlwaysNotFoundErr ==
    [][ \A i \in DOMAIN calls :
          (SystemCallFails(i, "ENOENT") /\ calls' # calls)
             => (last'.op = calls[i].op /\ Failed(last', NOT_FOUND_ERR)) ]_vars


\* the entry the fs.stat of call c is made on
StatTarget(c) == IF c.op = "getParent" THEN c.dst ELSE c.entry

\* the i-th call waits for its fs.stat, which fails with an error other than
\* not-found
StatFailsOtherwise(i) ==
    /\ calls[i].pc = "stat"
    /\ Stat(fs, OSPath(StatTarget(calls[i]))).err \notin {"", "ENOENT"}

\* C15: when the stat of an operation fails with an error other than
\* not-found, the operation fails with INVALID_STATE_ERR and the file tree
\* is not changed
C15_StatErrorIsInvalidState ==
    [][ \A i \in DOMAIN calls :
          (StatFailsOtherwise(i) /\ calls' # calls)
             => (/\ last'.op = calls[i].op
                 /\ Failed(last', INVALID_STATE_ERR)
                 /\ fs' = fs) ]_vars

-----------------------------------------------------------------------------
(* Properties of url resolution in the handlers *)

Unresolvable(u) == getEntryForUrl(fileLocations, u) = NullEntry

\* the urls the argument list of the call or settled promise c carries
UrlsOf(c) ==
    IF c.op \in {"copyTo", "moveTo"} THEN {c.args.uri, c.args.uri2}
    ELSE IF c.op \in {"none", "initialize", "requestFileSystem"} THEN {}
    ELSE {c.args.uri}

\* C16: an operation one of whose urls matches no scheme prefix of a
\* registered root fails with NOT_FOUND_ERR, never with another code, and
\* starts no I/O
C16_UnresolvableUrlIsNotFound ==
    [][ /\ (Settles /\ \E u \in UrlsOf(last') : Unresolvable(u))
              => (Failed(last', NOT_FOUND_ERR) /\ fs' = fs /\ calls' = calls)
        /\ \A i \in DOMAIN calls' : \A u \in UrlsOf(calls'[i]) : ~Unresolvable(u) ]_vars

-----------------------------------------------------------------------------
(* Properties of the registry *)

\* the first plugin.initialize call is made in this step
FirstInitialize == ~initialized /\ initialized'

\* a plugin.initialize call made after the first one returns in this step
LaterInitialize ==
    /\ initialized
    /\ last' # last /\ last'.op = "initialize"
    /\ calls' = calls

\* the names of the roots of the registry fls, in the order of registration
NamesOf(fls) == [k \in 1..Len(fls) |-> fls[k].name]

RootNames == <<ApplicationName, DataName, TempName, DocumentsName>>

\* the registry never changes after the first plugin.initialize call, which
\* is also the only step that can change it
RegistryChangesOnlyOnce ==
    /\ initialized => initialized'
    /\ fileLocations' # fileLocations
          => (/\ FirstInitialize
              /\ fileLocations = <<>>
              /\ NamesOf(fileLocations') = RootNames
              /\ calls' # calls)
    /\ LaterInitialize
          => (/\ last'.outcome = "error"
              /\ last'.value = [message |-> "already initialized"]
              /\ fileLocations' = fileLocations)

-----------------------------------------------------------------------------
(* Properties of the EntryInfo objects *)

\* the EntryInfo objects the settled promise p delivers
InfosOf(p) ==
    IF p.outcome # "success" \/ p.value = Undefined THEN {}
    ELSE IF p.op \in {"getFile", "getDirectory", "getParent", "copyTo", "moveTo",
                      "resolveLocalFileSystemURI"}
    THEN {p.value}
    ELSE IF p.op = "readEntries" THEN p.value.entries
    ELSE IF p.op = "requestFileSystem" THEN {p.value.root}
    ELSE {}

WellFormedInfo(info) ==
    /\ info.isFile = ~info.isDirectory
    /\ StartsWith(info.fullPath, <<PATH_SEP>>)
    /\ info.isDirectory => EndsWith(info.fullPath, <<PATH_SEP>>)
    /\ info.isFile => ~EndsWith(info.fullPath, <<PATH_SEP>>)

\* C18: every EntryInfo an operation delivers has isFile = ~isDirectory and a
\* fullPath that begins with `/`, ends with `/` for a directory and does not
\* end with `/` for a file
C18_EntryInfoWellFormed == \A info \in InfosOf(last) : WellFormedInfo(info)

\* readEntries delivered the EntryInfo of a file and of a directory
C18_Witness ==
    /\ last.op = "readEntries"
    /\ \E x, y \in InfosOf(last) : x.isFile /\ y.isDirectory

-----------------------------------------------------------------------------
(* Properties of scheme matching *)

\* C19: a URL that resolves to an Entry and the URL that differs from it only
\* in the letter case of its scheme resolve to an Entry with the same root
\* and the same fullPath
C19_SchemeCaseInsensitive ==
    (res # <<>> /\ Len(res) = 2 /\ res[1].entry # NullEntry)
        => (/\ res[2].entry # NullEntry
            /\ res[2].entry.root = res[1].entry.root
            /\ res[2].entry.fullPath = res[1].entry.fullPath)

\* efs:///data/a and EFS:///data/a both resolved to the entry /a of data
C19_Witness ==
    /\ res # <<>> /\ Len(res) = 2
    /\ res[1].url = EFS_PREFIX \o DataName \o <<"/","a">>
    /\ res[2].url = <<"E","F","S">> \o Drop(res[1].url, 3)
    /\ res[1].entry = Entry(DataName, <<"/","a">>)
    /\ res[2].entry = res[1].entry

-----------------------------------------------------------------------------
(* Properties of the url definitions *)

\* C20: the base stored by the constructor of FileUrlDef never ends with `/`
\* and the prefix is the base followed by exactly one `/`, whatever base
\* string the constructor is given
C20_UrlBaseHasNoTrailingSeparator ==
    (res # <<>> /\ res[1].class = "FileUrlDef")
        => (/\ ~EndsWith(res[1].def.base, <<PATH_SEP>>)
            /\ res[1].def.prefix = res[1].def.base \o <<PATH_SEP>>)

-----------------------------------------------------------------------------
(* Properties of moveTo *)

\* C21: moveTo reports its outcome only after the move has finished: when
\* success is reported no move is in flight, the source path no longer
\* exists and the destination exists
C21_MoveReportedAfterCompletion ==
    (last.op = "moveTo" /\ last.outcome = "success")
        => (/\ detached = <<>>
            /\ ~Exists(fs, NodeOf(last.entry))
            /\ Exists(fs, NodeOf(last.dst)))

-----------------------------------------------------------------------------
(* Properties of completion *)

\* C22: every operation that was issued eventually completes: its promise
\* settles and the settled promise is handed to the caller
C22_EveryOperationCompletes == (calls # <<>>) ~> (calls = <<>> /\ last = NoCall)

-----------------------------------------------------------------------------
(* Properties of write *)

\* C23: write overwrites at the offset, in either implementation variant:
\* after a successful write(url, data, position) on an existing file the
\* file holds data at the offsets [position, position + len(data)), every
\* byte it held before outside that range is unchanged, and the value
\* returned is len(data)
C23_WriteOverwritesAtOffset ==
    (last.op \in {"write", "writeA"} /\ last.outcome = "success" /\ arg.existed)
        => LET data == last.args.data
               position == last.args.num
               range == (position + 1)..(position + Len(data))
           IN  /\ IsFile(fs, arg.node)
               /\ \A k \in range :
                     k <= Len(fs[arg.node].data) /\ fs[arg.node].data[k] = data[k - position]
               /\ \A k \in (1..Len(arg.data)) \ range :
                     k <= Len(fs[arg.node].data) /\ fs[arg.node].data[k] = arg.data[k]
               /\ last.value = Number(Len(data))

-----------------------------------------------------------------------------
(* Properties of calls in flight together *)

\* the directory the entry of a call lies in exists
ParentExists(c) == IsDir(fs, ParentNode(NodeOf(c.entry)))

\* C24: creating a directory is idempotent: getDirectory with create and
\* without exclusive, in a writable root and with the parent directory
\* existing, never fails with PATH_EXISTS_ERR, also when another getDirectory
\* call for the same path is in flight; only a call with exclusive is
\* rejected with PATH_EXISTS_ERR
C24_CreateDirectoryIdempotent ==
    (/\ last.op = "getDirectory"
     /\ last.outcome = "error"
     /\ last.args.create /\ ~last.args.exclusive
     /\ EntryModifiable(last.entry)
     /\ ParentExists(last))
        => last.code # PATH_EXISTS_ERR

-----------------------------------------------------------------------------
(* Properties of the roots *)

\* plugin.initialize has registered the roots and initialized every location
RootsInitialized ==
    /\ fileLocations # <<>>
    /\ \A i \in DOMAIN calls : calls[i].op # "initialize"
    /\ last.op = "initialize" => last.outcome = "success"

\* C25: after a successful initialization the base directory of every root
\* exists as a directory in every reachable state: no remove,
\* removeRecursively or moveTo, also with the url of the root itself, deletes
\* it or moves it away
C25_RootDirectoriesExist ==
    RootsInitialized
        => \A r \in DOMAIN fileLocations :
              IsDir(fs, pathResolve(fileLocations[r].osPathDef.base))

-----------------------------------------------------------------------------
(* Properties of Entry.getParent and Entry.getChild *)

\* the segments of a fullPath: a separator at its end names the same entry
SegmentsOf(fullPath) == SelectSeq(SLASH_SPLIT(fullPath), LAMBDA x : x # <<>>)

\* the entry lies in the directory of its root
InsideRoot(entry) ==
    IsBeneath(pathResolve(getOSPath(fileLocations, entry)),
              pathResolve(RootOf(fileLocations, entry.root).osPathDef.base))

\* C26: getParent never leaves the root and never fails on the root: the
\* parent of the Entry with fullPath `/` is the Entry with fullPath `/` of
\* the same root; the parent of any other Entry is the Entry of the same
\* root whose fullPath is the input's without its last segment; and
\* getChild(n).getParent() has the root and the path of the Entry it started
\* from, for every plain name n
C26_GetParentStaysInRoot ==
    /\ (Len(res) = 1 /\ res[1].op = "getParent")
          => LET segs == SegmentsOf(arg.entry.fullPath)
                 parent == res[1].entry
             IN  /\ parent.root = arg.entry.root
                 /\ InsideRoot(parent)
                 /\ SegmentsOf(parent.fullPath) = SubSeq(segs, 1, Len(segs) - 1)
                 /\ segs = <<>> => parent.fullPath = <<"/">>
    /\ Len(res) = 2
          => /\ res[2].entry.root = arg.entry.root
             /\ SegmentsOf(res[2].entry.fullPath) = SegmentsOf(arg.entry.fullPath)

\* the Entry getParent or getChild started from has no `..` in its path
PlainEntry == \A k \in DOMAIN SegmentsOf(arg.entry.fullPath) : SegmentsOf(arg.entry.fullPath)[k] # DotDot


-----------------------------------------------------------------------------
(* Properties of exclusive creation with calls in flight together *)

\* C27: exclusive creation is exclusive under interleaving: of the calls
\* with create and exclusive for the same path that are in flight together
\* at most one reports success: no such call reports success for a path
\* that a successful getFile with create and exclusive has created and that
\* still exists
C27_ExclusiveUnderInterleaving ==
    [][ (/\ last' # last
         /\ ExclusiveCreate(last')
         /\ last'.outcome = "success")
            => NodeOf(last'.entry) \notin exclCreated ]_vars

-----------------------------------------------------------------------------
(* Properties of remove with calls in flight together *)

\* C28: remove never deletes a directory that has children at the moment of
\* the deletion: when a remove call is answered for a directory that holds a
\* child, added by another operation after the emptiness check or present
\* before, the answer is an error and the file tree is unchanged
C28_RemoveSparesChildren ==
    [][ (/\ last' # last
         /\ last'.op = "remove"
         /\ last'.entry # NullEntry
         /\ IsDir(fs, NodeOf(last'.entry))
         /\ Children(fs, NodeOf(last'.entry)) # {})
            => (last'.outcome = "error" /\ fs' = fs) ]_vars

-----------------------------------------------------------------------------
(* Properties of the initialization guard *)

\* C29: the initialization guard and the registry agree: _initialized is
\* true only if the four roots are registered, so that a plugin.initialize
\* call that failed before it registered the roots does not keep a later
\* call from succeeding
C29_GuardAgreesWithRegistry ==
    initialized => NamesOf(fileLocations) = RootNames

-----------------------------------------------------------------------------
(* Properties of the operations that do not modify *)

NonMutatingOps ==
    { "readEntries", "getFileMetadata", "getMetadata", "readAs", "getParent",
      "resolveLocalFileSystemURI", "requestAllPaths", "requestAllFileSystems",
      "requestFileSystem" }

\* the call is one of a non-mutating operation, or a getFile or getDirectory
\* without create
NonMutating(c) ==
    \/ c.op \in NonMutatingOps
    \/ c.op \in {"getFile", "getDirectory"} /\ ~c.args.create

\* the step is one of a non-mutating call: its handler is called, or a
\* callback of its I/O runs (a step that starts or ends an fs.move is none)
NonMutatingStep ==
    /\ detached' = detached
    /\ \/ Len(calls') > Len(calls) /\ NonMutating(calls'[Len(calls')])
       \/ last' # last /\ last' # NoCall /\ NonMutating(last')
       \/ \E i \in DOMAIN calls :
             i \in DOMAIN calls' /\ calls'[i] # calls[i] /\ NonMutating(calls[i])

\* C30: the non-mutating operations leave the file tree as it is: no step of
\* readEntries, getFileMetadata, getMetadata, readAs, getParent,
\* resolveLocalFileSystemURI, requestAllPaths, requestAllFileSystems,
\* requestFileSystem, or of getFile and getDirectory without create, creates,
\* deletes, truncates or renames anything, whether the call succeeds or fails
C30_NonMutatingLeavesTreeUnchanged == [][ NonMutatingStep => fs' = fs ]_vars

\* a getFile without create was answered with the file it found
C30_Witness ==
    /\ last.op = "getFile"
    /\ ~last.args.create
    /\ last.outcome = "success"
    /\ IsFile(fs, NodeOf(last.entry))

====
